---- MODULE Spec2Model ----
(***************************************************************************)
(* Verdict fusion of the phishing-detection backend.                       *)
(*                                                                         *)
(* Numbers.  Every Python number x (a probability in [0,1] or a percentage *)
(* in [0,100]) is the integer x * 10^5: 0.438 is 43800, 43.8 is 4380000,   *)
(* 100.0 is 10000000.  round(x, 2) is rounding to a multiple of 1000.      *)
(*                                                                         *)
(* Specifications.                                                         *)
(*   SpecNorm  normalize_confidence applied to one input value             *)
(*   Spec      one scan request handled by ScanController.scan_email or    *)
(*             ScanController.scan_email_content, from the request to the  *)
(*             returned result, with the database writes it performs       *)
(***************************************************************************)
EXTENDS Integers, Sequences, FiniteSets

VARIABLES
    nc_pc,      \* SpecNorm: "call" before normalize_confidence ran, "returned" after
    nc_in,      \* SpecNorm: the argument of normalize_confidence
    nc_out,     \* SpecNorm: its return value
    pc,         \* Spec: "idle" before the request, "done" once the handler returned
    entry,      \* Spec: which entry point handled the request
    sig,        \* Spec: what the collaborators answered during the scan
    loc,        \* Spec: the handler's local variables at its end
    result,     \* Spec: the value the handler returned
    scans,      \* Spec: db.scans, the documents inserted
    analytics,  \* Spec: db.user_analytics, the counters incremented
    resolver,   \* SpecUrls, SpecDns: what dns.resolver answers for each domain
    now,        \* SpecUrls: time.time()
    DNS_CACHE,              \* SpecUrls: url_analyzer.DNS_CACHE
    URL_REPUTATION_CACHE,   \* SpecUrls: url_analyzer.URL_REPUTATION_CACHE
    URL_VERIFICATION_CACHE, \* SpecUrls: url_verifier.URL_VERIFICATION_CACHE
    calls,      \* SpecUrls: the calls of analyze_urls so far, argument and return value
    url_list,   \* SpecDns: the urls of the email analyze_urls was called on
    main,       \* SpecDns: where the thread that runs analyze_urls stands
    worker,     \* SpecDns: where each dns_worker thread stands
    dns_queue,  \* SpecDns: the items of dns_queue, and its count of unfinished tasks
    dns_results,\* SpecDns: the dict the workers store into
    vl_pc,      \* SpecLegit: "call" before verify_email_legitimacy ran, "returned" after
    vl_in,      \* SpecLegit: the facts of the email it is called on
    vl_out      \* SpecLegit: its return value

normVars == <<nc_pc, nc_in, nc_out>>

scanVars == <<pc, entry, sig, loc, result, scans, analytics>>

urlVars == <<now, DNS_CACHE, URL_REPUTATION_CACHE, URL_VERIFICATION_CACHE, calls>>

dnsVars == <<url_list, main, worker, dns_queue, dns_results>>

legitVars == <<vl_pc, vl_in, vl_out>>

vars == <<normVars, scanVars, resolver, urlVars, dnsVars, legitVars>>

\* The variables of the url analysis, of the DNS worker pool and of the legitimacy
\* verification, in the specifications that do not run them
UrlIdle ==
    /\ now = 0
    /\ DNS_CACHE = <<>>
    /\ URL_REPUTATION_CACHE = <<>>
    /\ URL_VERIFICATION_CACHE = <<>>
    /\ calls = <<>>

DnsIdle ==
    /\ url_list = <<>>
    /\ main = "-"
    /\ worker = <<>>
    /\ dns_queue = <<>>
    /\ dns_results = <<>>

LegitIdle ==
    /\ vl_pc = "-"
    /\ vl_in = <<>>
    /\ vl_out = <<>>

----------------------------------------------------------------------------
(* Fixed point *)

\* n hundredths, as a number: Frac(85) is 0.85
Frac(n) == n * 1000

\* the whole number n: Whole(100) is 100.0
Whole(n) == n * 100000

Min(a, b) == IF a < b THEN a ELSE b

Max(a, b) == IF a > b THEN a ELSE b

\* a * b of two fixed-point numbers, b a number of hundredths (the factors of the
\* code are 1.2, 1.15 and 0.33); the division by 1000 first keeps the product
\* within the 32 bits of the model checker's integers
Mul(a, b) == (a * (b \div 1000)) \div 100

\* round(x, 2) for x >= 0: to the nearest multiple of 0.01, a tie to the even one
\* (Python rounds the binary float; the sampled inputs hold no decimal tie that
\* a binary float cannot represent)
Round2(x) ==
    LET q == x \div 1000
        r == x % 1000
    IN  IF r > 500 \/ (r = 500 /\ q % 2 = 1) THEN (q + 1) * 1000 ELSE q * 1000

----------------------------------------------------------------------------
(* normalize_confidence *)

\* A Python value: t is its type, v the number it holds (for a str, the number
\* its text denotes when text = "num"), text what a str holds.
PyVal(t, text, v) == [t |-> t, text |-> text, v |-> v]

PyFloat(v) == PyVal("float", "-", v)

PyInt(n) == PyVal("int", "-", Whole(n))

PyStr(text, v) == PyVal("str", text, v)

\* float(s) of a str: the float it denotes; "ValueError" when it denotes none
float(c) ==
    CASE c.text = "num"  -> PyVal("float", "-", c.v)
      [] c.text = "nan"  -> PyVal("nan", "-", 0)
      [] c.text = "inf"  -> PyVal("inf", "-", 0)
      [] c.text = "-inf" -> PyVal("-inf", "-", 0)
      [] OTHER           -> PyVal("ValueError", "-", 0)

\* Faulty variant of normalize_confidence: the probability branch multiplies without clamping
normalize_confidence_noclamp(confidence) ==
    LET x == IF confidence.t = "str" THEN float(confidence) ELSE confidence
    IN  IF x.t = "ValueError" THEN Whole(50)
        ELSE IF x.t \in {"int", "float", "bool", "nan", "inf", "-inf"}
             THEN IF x.t \in {"nan", "inf", "-inf"} THEN Whole(50)
                  ELSE IF x.v > Whole(1)
                       THEN (IF x.v <= Whole(100) THEN Round2(x.v) ELSE Whole(100))
                       ELSE x.v * 100
             ELSE Whole(50)

normalize_confidence(confidence) ==
    LET x == IF confidence.t = "str" THEN float(confidence) ELSE confidence
    IN  IF x.t = "ValueError" THEN Whole(50)
        ELSE IF x.t \in {"int", "float", "bool", "nan", "inf", "-inf"}
             THEN \* isinstance(confidence, (int, float)); NaN and infinities are floats
                  IF x.t \in {"nan", "inf", "-inf"} THEN Whole(50)
                  ELSE IF x.v > Whole(1)
                       THEN (IF x.v <= Whole(100) THEN Round2(x.v) ELSE Whole(100))
                       ELSE Round2(Max(0, Min(x.v, Whole(1))) * 100)
             ELSE Whole(50)

\* Bound of the sampled inputs of normalize_confidence
NormGrid == 30

\* The test cases of confidence_diagnostic.py
TEST_CASES ==
    {PyFloat(43800), PyFloat(0), PyFloat(Whole(1)), PyFloat(4380000), PyFloat(438000),
     PyFloat(-50000), PyStr("bad", 0), PyVal("NoneType", "-", 0), PyInt(6487),
     PyFloat(99990)}

\* The numbers sampled: probabilities around [0,1] in steps of 0.04382, percentages
\* in steps of 4.38124 (both meet values that need rounding, none a tie), and the
\* thresholds 1 and 100 with their neighbours
NormNumbers ==
    {k * 4382 : k \in (0 - NormGrid) .. NormGrid}
        \cup {k * 438124 : k \in 0 .. NormGrid}
        \cup {Whole(1) - 1, Whole(1), Whole(1) + 1, Whole(100) - 1, Whole(100), Whole(100) + 1}

NormInputs ==
    TEST_CASES
        \cup {PyFloat(v) : v \in NormNumbers}
        \cup {PyStr("num", v) : v \in NormNumbers}
        \cup {PyInt(n) : n \in {-3, 0, 1, 2, 50, 100, 101}}
        \cup {PyVal("bool", "-", Whole(b)) : b \in {0, 1}}
        \cup {PyVal(t, "-", 0) : t \in {"nan", "inf", "-inf", "NoneType", "list", "dict"}}
        \cup {PyStr(s, 0) : s \in {"nan", "inf", "-inf", "bad"}}

----------------------------------------------------------------------------
(* Collaborators of the scan: what each can answer *)

\* check_whitelist: not whitelisted, or whitelisted with the confidence of the
\* matched TRUSTED_DOMAINS / TRUSTED_EMAILS entry (0.90, 0.92, 0.95), raised by
\* 0.03 per passed authentication check up to 0.99
WhitelistChecks ==
    {[is_whitelisted |-> FALSE, confidence |-> 0]}
        \cup {[is_whitelisted |-> TRUE, confidence |-> c] :
                c \in {Frac(90), Frac(92), Frac(95), Frac(98), Frac(99)}}

\* is_email_whitelisted: whitelisted unless the confidence is below 0.9
is_email_whitelisted(whitelist_check) ==
    IF whitelist_check.is_whitelisted /\ whitelist_check.confidence < Frac(90)
    THEN FALSE
    ELSE whitelist_check.is_whitelisted

\* verify_email_legitimacy: the results it returns. "None" is Python's None.
LegitimacyResults ==
    {[is_legitimate |-> FALSE, confidence |-> 0,        trusted_provider |-> "None"],
     [is_legitimate |-> TRUE,  confidence |-> Frac(95), trusted_provider |-> "google"],
     [is_legitimate |-> TRUE,  confidence |-> Frac(90), trusted_provider |-> "netflix"],
     [is_legitimate |-> TRUE,  confidence |-> Frac(98), trusted_provider |-> "netflix"],
     [is_legitimate |-> TRUE,  confidence |-> Frac(80), trusted_provider |-> "None"]}

\* One run of the classifier: outcome "unloaded" (the model and the fallback model
\* cannot be loaded), "raises" (vectorizer or model raises), "bad_value" (the raw
\* prediction is no number), "ok"; raw is the raw prediction (raw_nan: it is NaN),
\* risk the calibration that applies, keywords the words of phishing_indicators
\* that are in the text and in the vectorizer's vocabulary.
ClassifierRun(outcome, raw, raw_nan, risk, keywords) ==
    [outcome |-> outcome, raw |-> raw, raw_nan |-> raw_nan, risk |-> risk,
     keywords |-> keywords]

ClassifierRuns ==
    {ClassifierRun("ok", Frac(r), FALSE, "none", {}) : r \in {10, 20, 40, 55, 60, 65, 90}}
    \cup {ClassifierRun("ok", Frac(r), FALSE, "none", {"immediately"}) : r \in {10, 65}}
    \cup {ClassifierRun("ok", Frac(-20), FALSE, "none", {}),
          ClassifierRun("ok", Frac(130), FALSE, "none", {"account"}),
          ClassifierRun("ok", Frac(65), FALSE, "none", {"verify"}),
          ClassifierRun("ok", 0, TRUE, "none", {}),
          ClassifierRun("ok", Frac(55), FALSE, "high_risk_patterns", {}),
          ClassifierRun("ok", Frac(90), FALSE, "suspicious_formatting", {}),
          ClassifierRun("bad_value", 0, FALSE, "none", {}),
          ClassifierRun("unloaded", 0, FALSE, "none", {}),
          ClassifierRun("raises", 0, FALSE, "none", {})}

\* _extract_features, line 291: the list the keywords are looked up in
phishing_indicators ==
    <<"account", "money", "log", "replica", "agreed receive",
      "click", "verify", "bank", "urgent", "password",
      "security", "alert", "suspend", "confirm", "immediately",
      "unauthorized", "access", "information", "paypal", "limited",
      "update", "bank", "credit", "details", "card", "login", "verify",
      "alert", "suspend", "click", "link", "urgent", "require">>

\* _extract_features, lines 302-303: [word for word in phishing_indicators
\* if word in text_lower and word in vocabulary]
extract_features(found) ==
    SelectSeq(phishing_indicators, LAMBDA word : word \in found)

\* Faulty variant of predict: a model that cannot be loaded or that raises is reported as
\* phishing at 0.5
predict_default_phishing(run) ==
    IF run.outcome \in {"unloaded", "raises"}
    THEN [prediction |-> 1, confidence |-> Frac(50), suspicious_keywords |-> <<>>]
    ELSE LET calibrated ==
                 IF run.risk = "high_risk_patterns" THEN Min(Mul(run.raw, Frac(120)), Whole(1))
                 ELSE IF run.risk = "suspicious_formatting"
                      THEN Min(Mul(run.raw, Frac(115)), Whole(1))
                      ELSE run.raw
             confidence ==
                 IF run.outcome = "bad_value" THEN Frac(50)
                 ELSE IF run.raw_nan THEN 0
                 ELSE Max(0, Min(calibrated, Whole(1)))
         IN  [prediction |-> IF confidence >= Frac(50) THEN 1 ELSE 0,
              confidence |-> confidence,
              suspicious_keywords |-> extract_features(run.keywords)]

\* PhishingDetector.predict
predict(run) ==
    IF run.outcome \in {"unloaded", "raises"}
    THEN [prediction |-> 0, confidence |-> Frac(50), suspicious_keywords |-> <<>>]
    ELSE LET calibrated ==
                 IF run.risk = "high_risk_patterns" THEN Min(Mul(run.raw, Frac(120)), Whole(1))
                 ELSE IF run.risk = "suspicious_formatting"
                      THEN Min(Mul(run.raw, Frac(115)), Whole(1))
                      ELSE run.raw
             \* NaN fails 0 <= confidence <= 1 and max(0, min(NaN, 1)) is 0
             confidence ==
                 IF run.outcome = "bad_value" THEN Frac(50)
                 ELSE IF run.raw_nan THEN 0
                 ELSE Max(0, Min(calibrated, Whole(1)))
         IN  [prediction |-> IF confidence >= Frac(50) THEN 1 ELSE 0,
              confidence |-> confidence,
              suspicious_keywords |-> extract_features(run.keywords)]

\* One call of the LLM: outcome "unconfigured" (library or API key missing,
\* configure fails), "timeout", "quota" (generate_content raises), "invalid_json"
\* (json.loads or float() raises), "empty_text" (resp.text is empty, read as "{}":
\* a JSON object that holds neither 'verdict' nor 'confidence'),
\* "ok"; verdict and confidence are the fields of the JSON answer.
GeminiCall(outcome, verdict, confidence) ==
    [outcome |-> outcome, verdict |-> verdict, confidence |-> confidence]

GeminiFailures == {"unconfigured", "timeout", "quota", "invalid_json"}

GeminiCalls ==
    {GeminiCall(o, "-", 0) : o \in GeminiFailures \cup {"empty_text"}}
    \cup {GeminiCall("ok", "safe", Frac(c)) : c \in {40, 50, 60, 80, 90}}
    \cup {GeminiCall("ok", "phishing", Frac(c)) : c \in {60, 70}}
    \cup {GeminiCall("ok", "unsure", Frac(150))}

\* analyze_email_with_gemini
analyze_email_with_gemini(call) ==
    IF call.outcome \in GeminiFailures
    THEN [enabled |-> FALSE, verdict |-> "-", confidence |-> 0]
    ELSE IF call.outcome = "empty_text"
    THEN [enabled |-> TRUE, verdict |-> "safe", confidence |-> Frac(50)]
    ELSE [enabled |-> TRUE,
          verdict |-> IF call.verdict \in {"phishing", "safe"} THEN call.verdict ELSE "safe",
          confidence |-> Max(0, Min(Whole(1), call.confidence))]

\* Bound: the findings analyze_urls returns for one email
MaxUrlFindings == 4

\* The findings of analyze_urls the fusion tells apart: 'url' of severity high,
\* 'domain_mismatch' (high), and the findings of severity medium
UrlFindingKinds == {"url_high", "domain_mismatch", "url_medium"}

NoUrlFindings == [k \in UrlFindingKinds |-> 0]

\* analyze_urls: how many findings of each kind it returned
UrlFindings ==
    {NoUrlFindings}
    \cup {[NoUrlFindings EXCEPT !["url_medium"] = n] : n \in 1 .. MaxUrlFindings}
    \cup {[NoUrlFindings EXCEPT !["url_high"] = 1],
          [NoUrlFindings EXCEPT !["domain_mismatch"] = 1],
          [NoUrlFindings EXCEPT !["url_high"] = 1, !["url_medium"] = 2]}

----------------------------------------------------------------------------
(* Verdict fusion *)

\* Faulty variant of LlmPhishingOverride: the threshold is strict
LlmPhishingOverride_strict(prediction, confidence, gemini_confidence) ==
    IF gemini_confidence > Frac(70)
    THEN [prediction |-> 1, confidence |-> Max(confidence, gemini_confidence)]
    ELSE [prediction |-> prediction, confidence |-> confidence]

\* scan_email, lines 249-252: the LLM says phishing, the classifier said safe
LlmPhishingOverride(prediction, confidence, gemini_confidence) ==
    IF gemini_confidence >= Frac(70)
    THEN [prediction |-> 1, confidence |-> Max(confidence, gemini_confidence)]
    ELSE [prediction |-> prediction, confidence |-> confidence]

\* Faulty variant of LlmSafeOverride: the soft override keeps the LLM's confidence
LlmSafeOverride_unblended(prediction, confidence, gemini_confidence) ==
    IF gemini_confidence >= Frac(60)
    THEN [prediction |-> 0, confidence |-> gemini_confidence]
    ELSE IF confidence < Frac(70) /\ gemini_confidence >= Frac(50)
    THEN [prediction |-> 0, confidence |-> gemini_confidence]
    ELSE [prediction |-> prediction, confidence |-> confidence]

\* Faulty variant of LlmSafeOverride: the LLM's confidence has to be above 0.8
LlmSafeOverride_above80(prediction, confidence, gemini_confidence) ==
    IF gemini_confidence > Frac(80)
    THEN [prediction |-> 0, confidence |-> gemini_confidence]
    ELSE IF confidence < Frac(70) /\ gemini_confidence >= Frac(50)
    THEN [prediction |-> 0,
          confidence |-> (gemini_confidence + (Whole(1) - confidence)) \div 2]
    ELSE [prediction |-> prediction, confidence |-> confidence]

\* scan_email, lines 255-264: the LLM says safe, the classifier said phishing
LlmSafeOverride(prediction, confidence, gemini_confidence) ==
    IF gemini_confidence >= Frac(60)
    THEN [prediction |-> 0, confidence |-> gemini_confidence]
    ELSE IF confidence < Frac(70) /\ gemini_confidence >= Frac(50)
    THEN [prediction |-> 0,
          confidence |-> (gemini_confidence + (Whole(1) - confidence)) \div 2]
    ELSE [prediction |-> prediction, confidence |-> confidence]

\* scan_email, LLM reconciliation (the block under "if gemini.get('enabled')")
GeminiReconcile(prediction, confidence, gemini, short) ==
    IF ~gemini.enabled
    THEN [prediction |-> prediction, confidence |-> confidence,
          enabled |-> FALSE, override_applied |-> FALSE]
    ELSE
    LET gv == gemini.verdict
        gc == gemini.confidence
        same == [prediction |-> prediction, confidence |-> confidence]
        first ==
            IF gv = "phishing" /\ prediction = 0
            THEN LlmPhishingOverride(prediction, confidence, gc)
            ELSE IF gv = "safe" /\ prediction = 1
            THEN LlmSafeOverride(prediction, confidence, gc)
            ELSE same
        \* special handling for very short messages
        second ==
            IF short /\ gv = "safe" /\ gc >= Frac(80) /\ first.prediction = 1
            THEN [prediction |-> 0, confidence |-> gc]
            ELSE first
    IN  [prediction |-> second.prediction, confidence |-> second.confidence,
         enabled |-> TRUE,
         override_applied |->
             \/ (gv = "safe" /\ second.prediction = 0 /\ gc >= Frac(60))
             \/ (gv = "phishing" /\ second.prediction = 1 /\ gc >= Frac(70))]

\* scan_email and scan_email_content, the connected-account trust boost
TrustBoost(legitimacy_results, is_connected_account, from_google) ==
    IF is_connected_account /\ from_google
    THEN [is_legitimate |-> TRUE, confidence |-> Frac(98), trusted_provider |-> "google"]
    ELSE legitimacy_results

\* Faulty variant of LegitimacyOverride: the band is scaled by 0.5 instead of 0.33
LegitimacyOverride_wide(legitimacy_results, prediction, confidence) ==
    IF legitimacy_results.is_legitimate /\ legitimacy_results.confidence > Frac(70)
    THEN [prediction |-> 0,
          confidence |-> Frac(85) + Mul(legitimacy_results.confidence - Frac(70), Frac(50)),
          is_legitimate_service |-> TRUE,
          trusted_provider |-> legitimacy_results.trusted_provider]
    ELSE IF prediction = 0
    THEN [prediction |-> 0, confidence |-> Whole(1) - confidence,
          is_legitimate_service |-> FALSE, trusted_provider |-> "None"]
    ELSE [prediction |-> prediction, confidence |-> confidence,
          is_legitimate_service |-> FALSE, trusted_provider |-> "None"]

\* scan_email and scan_email_content, the legitimacy override and the inversion of
\* a safe prediction's confidence; is_legitimate_service and trusted_provider are
\* the features the override sets (absent, read as False and None, otherwise)
LegitimacyOverride(legitimacy_results, prediction, confidence) ==
    IF legitimacy_results.is_legitimate /\ legitimacy_results.confidence > Frac(70)
    THEN [prediction |-> 0,
          confidence |-> Frac(85) + Mul(legitimacy_results.confidence - Frac(70), Frac(33)),
          is_legitimate_service |-> TRUE,
          trusted_provider |-> legitimacy_results.trusted_provider]
    ELSE IF prediction = 0
    THEN [prediction |-> 0, confidence |-> Whole(1) - confidence,
          is_legitimate_service |-> FALSE, trusted_provider |-> "None"]
    ELSE [prediction |-> prediction, confidence |-> confidence,
          is_legitimate_service |-> FALSE, trusted_provider |-> "None"]

\* The values of a 'keyword' element that the fusion reads as urgent
UrgentKeywords == {"urgent", "immediately", "alert", "verify"}

\* suspicious_elements = analyze_urls(email_data) + one low 'keyword' element per
\* suspicious keyword, and the counts and flags the verdict is decided on
SuspiciousElements(urls, keywords) ==
    [suspicious_count |->
         urls["url_high"] + urls["domain_mismatch"] + urls["url_medium"] + Len(keywords),
     high_severity_count |-> urls["url_high"] + urls["domain_mismatch"],
     medium_severity_count |-> urls["url_medium"],
     has_urgent_keywords |-> \E i \in 1 .. Len(keywords) : keywords[i] \in UrgentKeywords,
     has_high_severity_urls |-> urls["url_high"] > 0,
     has_mismatched_links |-> urls["domain_mismatch"] > 0]

\* Faulty variant of VerdictScanEmail: the moderate phishing rule asks confidence > 0.8
VerdictScanEmail_strict(prediction, confidence, is_legitimate_service, trusted_provider, e) ==
    IF is_legitimate_service /\ trusted_provider # "None"
    THEN (IF e.high_severity_count > 0 \/ e.suspicious_count > 3 THEN "suspicious" ELSE "safe")
    ELSE IF prediction = 0 /\ confidence > Frac(80) /\ e.suspicious_count = 0 THEN "safe"
    ELSE IF prediction = 0 /\ confidence > Frac(60) /\ e.suspicious_count < 2
            /\ e.high_severity_count = 0 THEN "safe"
    ELSE IF prediction = 1 /\ confidence > Frac(80)
            /\ (e.suspicious_count > 2 \/ e.high_severity_count > 0) THEN "phishing"
    ELSE IF prediction = 1 /\ confidence > Frac(80) THEN "phishing"
    ELSE "suspicious"

\* scan_email, the verdict
VerdictScanEmail(prediction, confidence, is_legitimate_service, trusted_provider, e) ==
    IF is_legitimate_service /\ trusted_provider # "None"
    THEN (IF e.high_severity_count > 0 \/ e.suspicious_count > 3 THEN "suspicious" ELSE "safe")
    ELSE IF prediction = 0 /\ confidence > Frac(80) /\ e.suspicious_count = 0 THEN "safe"
    ELSE IF prediction = 0 /\ confidence > Frac(60) /\ e.suspicious_count < 2
            /\ e.high_severity_count = 0 THEN "safe"
    ELSE IF prediction = 1 /\ confidence > Frac(80)
            /\ (e.suspicious_count > 2 \/ e.high_severity_count > 0) THEN "phishing"
    ELSE IF prediction = 1 /\ confidence > Frac(60) THEN "phishing"
    ELSE IF e.suspicious_count > 2 \/ e.high_severity_count > 0
            \/ e.has_high_severity_urls \/ e.has_mismatched_links THEN "suspicious"
    ELSE "suspicious"

\* scan_email_content, the verdict
VerdictScanEmailContent(prediction, confidence, is_legitimate_service, trusted_provider, is_connected_account, e) ==
    IF is_legitimate_service /\ trusted_provider # "None" THEN "safe"
    ELSE IF is_connected_account /\ prediction = 0 THEN "safe"
    ELSE IF prediction = 1
            /\ (\/ confidence >= Frac(80)
                \/ (confidence >= Frac(65) /\ e.has_urgent_keywords /\ e.has_mismatched_links)
                \/ e.high_severity_count >= 3
                \/ e.has_high_severity_urls) THEN "phishing"
    ELSE IF prediction = 1
            /\ (\/ confidence >= Frac(60)
                \/ (e.suspicious_count >= 3 /\ confidence >= Frac(40))
                \/ e.medium_severity_count >= 3
                \/ e.high_severity_count >= 1) THEN "suspicious"
    ELSE "safe"

----------------------------------------------------------------------------
(* The two scan entry points *)

\* The locals of scan_email after the verdict was decided (lines 219-414)
FuseScanEmail(legitimacy_results, run, call, short, urls) ==
    LET \* ScanRequest has no 'source' and no 'is_connected_account' field
        is_connected_account == FALSE
        legitimacy == TrustBoost(legitimacy_results, is_connected_account, FALSE)
        clf == predict(run)
        gemini == analyze_email_with_gemini(call)
        rec == GeminiReconcile(clf.prediction, clf.confidence, gemini, short)
        lo == LegitimacyOverride(legitimacy, rec.prediction, rec.confidence)
        e == SuspiciousElements(urls, clf.suspicious_keywords)
    IN  [classifier |-> clf, gemini |-> gemini, reconciled |-> rec,
         legitimacy |-> legitimacy, is_connected_account |-> is_connected_account,
         prediction |-> lo.prediction, confidence |-> lo.confidence,
         is_legitimate_service |-> lo.is_legitimate_service,
         trusted_provider |-> lo.trusted_provider,
         elements |-> e,
         confidence_percentage |-> normalize_confidence(PyFloat(lo.confidence)),
         verdict |-> VerdictScanEmail(lo.prediction, lo.confidence,
                                      lo.is_legitimate_service, lo.trusted_provider, e)]

\* The locals of scan_email_content after the verdict was decided (lines 612-731)
FuseScanEmailContent(legitimacy_results, is_connected_account, from_google, run, urls) ==
    LET legitimacy == TrustBoost(legitimacy_results, is_connected_account, from_google)
        clf == predict(run)
        lo == LegitimacyOverride(legitimacy, clf.prediction, clf.confidence)
        e == SuspiciousElements(urls, clf.suspicious_keywords)
    IN  [classifier |-> clf,
         legitimacy |-> legitimacy, is_connected_account |-> is_connected_account,
         prediction |-> lo.prediction, confidence |-> lo.confidence,
         is_legitimate_service |-> lo.is_legitimate_service,
         trusted_provider |-> lo.trusted_provider,
         elements |-> e,
         confidence_percentage |-> normalize_confidence(PyFloat(lo.confidence)),
         verdict |-> VerdictScanEmailContent(lo.prediction, lo.confidence,
                                             lo.is_legitimate_service, lo.trusted_provider,
                                             is_connected_account, e)]

\* A returned result: http is the status of the response (0: scan_email_content
\* returns a dict, no response), keys the keys the dict holds
ScanResult(http, verdict, confidence, suspiciousElements, has_id) ==
    [http |-> http,
     keys |-> {"verdict", "confidence", "explanation", "recommendedAction",
               "suspiciousElements"} \cup (IF has_id THEN {"id"} ELSE {}),
     verdict |-> verdict, confidence |-> confidence,
     suspiciousElements |-> suspiciousElements]

\* scan_email, except: jsonify({"error": ...}), 500
ErrorResponse ==
    [http |-> 500, keys |-> {"error"}, verdict |-> "-", confidence |-> 0,
     suspiciousElements |-> 0]

\* scan_email_content, except: the error dict
ErrorResult ==
    [http |-> 0, keys |-> {"error", "verdict", "confidence", "suspiciousElements"},
     verdict |-> "error", confidence |-> 0, suspiciousElements |-> 0]

ScanDoc(verdict, confidence, suspicious_elements, whitelisted) ==
    [verdict |-> verdict, confidence |-> confidence,
     suspicious_elements |-> suspicious_elements, whitelisted |-> whitelisted]

\* "Store scan result in database if user is authenticated": db.scans.insert_one,
\* then db.user_analytics.update_one, then the result with the id; an exception of
\* either write leaves what was written and ends in the handler's except branch
Persist(current_user, fault, doc, ok, error) ==
    IF ~current_user THEN [scans |-> <<>>, analytics |-> <<>>, result |-> ok]
    ELSE IF fault = "insert_one" THEN [scans |-> <<>>, analytics |-> <<>>, result |-> error]
    ELSE IF fault = "update_one" THEN [scans |-> <<doc>>, analytics |-> <<>>, result |-> error]
    ELSE [scans |-> <<doc>>,
          analytics |-> <<[total_scans |-> 1, verdict_count |-> doc.verdict]>>,
          result |-> [ok EXCEPT !.keys = @ \cup {"id"}]]

ScanIdle ==
    /\ pc = "idle"
    /\ entry = "-"
    /\ sig = <<>>
    /\ loc = <<>>
    /\ result = <<>>
    /\ scans = <<>>
    /\ analytics = <<>>

InitNorm ==
    /\ nc_pc = "call"
    /\ nc_in \in NormInputs
    /\ nc_out = 0
    /\ ScanIdle
    /\ resolver = <<>>
    /\ UrlIdle /\ DnsIdle /\ LegitIdle

Normalize ==
    /\ nc_pc = "call"
    /\ nc_out' = normalize_confidence(nc_in)
    /\ nc_pc' = "returned"
    /\ UNCHANGED <<nc_in, scanVars, resolver, urlVars, dnsVars, legitVars>>

NextNorm == Normalize

SpecNorm == InitNorm /\ [][NextNorm]_vars


NormIdle ==
    /\ nc_pc = "-"
    /\ nc_in = PyFloat(0)
    /\ nc_out = 0

Init ==
    /\ NormIdle
    /\ ScanIdle
    /\ resolver = <<>>
    /\ UrlIdle /\ DnsIdle /\ LegitIdle

\* scan_email: an exception before the whitelist check (request validation,
\* language detection, translation) ends in the except branch of lines 508-511
ScanEmailRaises ==
    /\ pc = "idle"
    /\ \E current_user \in BOOLEAN :
        sig' = [path |-> "raises", current_user |-> current_user,
                fault |-> "before_whitelist"]
    /\ loc' = <<>>
    /\ result' = ErrorResponse
    /\ entry' = "scan_email"
    /\ pc' = "done"
    /\ UNCHANGED <<scans, analytics, normVars, resolver, urlVars, dnsVars, legitVars>>

\* scan_email_content: an exception before the whitelist check ends in the except
\* branch of lines 824-831
ScanEmailContentRaises ==
    /\ pc = "idle"
    /\ \E current_user \in BOOLEAN :
        sig' = [path |-> "raises", current_user |-> current_user,
                fault |-> "before_whitelist"]
    /\ loc' = <<>>
    /\ result' = ErrorResult
    /\ entry' = "scan_email_content"
    /\ pc' = "done"
    /\ UNCHANGED <<scans, analytics, normVars, resolver, urlVars, dnsVars, legitVars>>

\* scan_email, lines 141-216: the whitelist short-circuit
ScanEmailWhitelisted ==
    /\ pc = "idle"
    /\ \E current_user \in BOOLEAN, whitelist_check \in WhitelistChecks,
          fault \in {"none", "insert_one", "update_one"} :
        /\ is_email_whitelisted(whitelist_check)
        /\ ~current_user => fault = "none"
        /\ LET p == Persist(current_user, fault,
                            ScanDoc("safe", Frac(98), 0, TRUE),
                            ScanResult(200, "safe", Frac(98), 0, FALSE),
                            ErrorResponse)
           IN  /\ sig' = [path |-> "whitelist", current_user |-> current_user,
                          fault |-> fault, whitelist_check |-> whitelist_check]
               /\ loc' = <<>>
               /\ result' = p.result
               /\ scans' = p.scans
               /\ analytics' = p.analytics
    /\ entry' = "scan_email"
    /\ pc' = "done"
    /\ UNCHANGED <<normVars, resolver, urlVars, dnsVars, legitVars>>

\* scan_email_content, lines 544-609: the whitelist short-circuit
ScanEmailContentWhitelisted ==
    /\ pc = "idle"
    /\ \E current_user \in BOOLEAN, whitelist_check \in WhitelistChecks,
          fault \in {"none", "insert_one", "update_one"} :
        /\ whitelist_check.is_whitelisted /\ whitelist_check.confidence > Frac(90)
        /\ ~current_user => fault = "none"
        /\ LET p == Persist(current_user, fault,
                            ScanDoc("safe", whitelist_check.confidence * 100, 0, TRUE),
                            ScanResult(0, "safe", whitelist_check.confidence * 100, 0, FALSE),
                            ErrorResult)
           IN  /\ sig' = [path |-> "whitelist", current_user |-> current_user,
                          fault |-> fault, whitelist_check |-> whitelist_check]
               /\ loc' = <<>>
               /\ result' = p.result
               /\ scans' = p.scans
               /\ analytics' = p.analytics
    /\ entry' = "scan_email_content"
    /\ pc' = "done"
    /\ UNCHANGED <<normVars, resolver, urlVars, dnsVars, legitVars>>

\* scan_email, lines 218-506: the signals, the fusion, the persistence
ScanEmailFusion ==
    /\ pc = "idle"
    /\ \E current_user \in BOOLEAN, whitelist_check \in WhitelistChecks,
          legitimacy_results \in LegitimacyResults, run \in ClassifierRuns,
          call \in GeminiCalls, short \in BOOLEAN, urls \in UrlFindings,
          fault \in {"none", "analyze_urls", "insert_one", "update_one"} :
        /\ ~is_email_whitelisted(whitelist_check)
        /\ ~current_user => fault \in {"none", "analyze_urls"}
        \* the length of the text is read only when the LLM answered
        /\ ~analyze_email_with_gemini(call).enabled => ~short
        \* analyze_urls raised: it returned no findings
        /\ fault = "analyze_urls" => urls = NoUrlFindings
        /\ LET l == FuseScanEmail(legitimacy_results, run, call, short, urls)
               p == IF fault = "analyze_urls"
                    THEN [scans |-> <<>>, analytics |-> <<>>, result |-> ErrorResponse]
                    ELSE Persist(current_user, fault,
                                 ScanDoc(l.verdict, l.confidence,
                                         l.elements.suspicious_count, FALSE),
                                 ScanResult(200, l.verdict, l.confidence_percentage,
                                            l.elements.suspicious_count, FALSE),
                                 ErrorResponse)
           IN  /\ sig' = [path |-> "fusion", current_user |-> current_user,
                          fault |-> fault, whitelist_check |-> whitelist_check,
                          legitimacy_results |-> legitimacy_results,
                          run |-> run, call |-> call, short |-> short, urls |-> urls]
               \* analyze_urls raised: no verdict was decided
               /\ loc' = IF fault = "analyze_urls" THEN [l EXCEPT !.verdict = "-"] ELSE l
               /\ result' = p.result
               /\ scans' = p.scans
               /\ analytics' = p.analytics
    /\ entry' = "scan_email"
    /\ pc' = "done"
    /\ UNCHANGED <<normVars, resolver, urlVars, dnsVars, legitVars>>

\* scan_email_content, lines 611-822: the signals, the fusion, the persistence
ScanEmailContentFusion ==
    /\ pc = "idle"
    /\ \E current_user \in BOOLEAN, whitelist_check \in WhitelistChecks,
          legitimacy_results \in LegitimacyResults, run \in ClassifierRuns,
          is_connected_account \in BOOLEAN, from_google \in BOOLEAN,
          sender_is_google \in BOOLEAN, urls \in UrlFindings,
          fault \in {"none", "analyze_urls", "insert_one", "update_one"} :
        /\ ~(whitelist_check.is_whitelisted /\ whitelist_check.confidence > Frac(90))
        \* a sender on the whitelist at 0.90 is a trusted provider's domain
        /\ whitelist_check.is_whitelisted =>
               /\ legitimacy_results.is_legitimate
               /\ legitimacy_results.trusted_provider # "None"
        \* from_google: the 'from' string holds 'google.com' or 'gmail.com', in the
        \* display name or in the address; it is read only for a connected account,
        \* and verify_email_legitimacy, which looks for 'google' in the same string,
        \* returned Google's at 0.95.
        \* sender_is_google: the domain of the sender's address is google.com or
        \* gmail.com
        /\ from_google =>
               /\ is_connected_account
               /\ legitimacy_results.trusted_provider = "google"
        /\ sender_is_google =>
               /\ from_google
               /\ ~whitelist_check.is_whitelisted
        /\ ~current_user => fault \in {"none", "analyze_urls"}
        /\ fault = "analyze_urls" => urls = NoUrlFindings
        /\ LET l == FuseScanEmailContent(legitimacy_results, is_connected_account,
                                         from_google, run, urls)
               p == IF fault = "analyze_urls"
                    THEN [scans |-> <<>>, analytics |-> <<>>, result |-> ErrorResult]
                    ELSE Persist(current_user, fault,
                                 ScanDoc(l.verdict, l.confidence_percentage,
                                         l.elements.suspicious_count, FALSE),
                                 ScanResult(0, l.verdict, l.confidence_percentage,
                                            l.elements.suspicious_count, FALSE),
                                 ErrorResult)
           IN  /\ sig' = [path |-> "fusion", current_user |-> current_user,
                          fault |-> fault, whitelist_check |-> whitelist_check,
                          legitimacy_results |-> legitimacy_results,
                          run |-> run, is_connected_account |-> is_connected_account,
                          from_google |-> from_google,
                          sender_is_google |-> sender_is_google, urls |-> urls]
               \* analyze_urls raised: no verdict was decided
               /\ loc' = IF fault = "analyze_urls" THEN [l EXCEPT !.verdict = "-"] ELSE l
               /\ result' = p.result
               /\ scans' = p.scans
               /\ analytics' = p.analytics
    /\ entry' = "scan_email_content"
    /\ pc' = "done"
    /\ UNCHANGED <<normVars, resolver, urlVars, dnsVars, legitVars>>

Next ==
    \/ ScanEmailRaises
    \/ ScanEmailWhitelisted
    \/ ScanEmailFusion
    \/ ScanEmailContentRaises
    \/ ScanEmailContentWhitelisted
    \/ ScanEmailContentFusion

Spec == Init /\ [][Next]_vars

----------------------------------------------------------------------------
(* url_analyzer and url_verifier: the urls, the resolver, the caches *)

DNS_CACHE_EXPIRY == 3600

URL_REPUTATION_EXPIRY == 86400

CACHE_EXPIRY == 86400

\* A domain as tldextract gives it (domain.suffix), with what the string tests of
\* the code find in it: tld_common (its last label is in COMMON_TLDS),
\* known_legitimate (is_known_legitimate_domain), brand (the key of MAJOR_SERVICES
\* whose list holds it, "None" if none)
DomainFacts ==
    [d \in {"paypal.com", "paypal-secure.tk", "bit.ly", "example.org", "evil-site.com",
            "paypal.ca", "paypal-alert.com"} |->
        CASE d = "paypal.com" ->
                 [tld_common |-> TRUE, known_legitimate |-> TRUE, brand |-> "paypal"]
          [] d = "paypal-secure.tk" ->
                 [tld_common |-> FALSE, known_legitimate |-> FALSE, brand |-> "None"]
          [] d = "bit.ly" ->
                 [tld_common |-> FALSE, known_legitimate |-> FALSE, brand |-> "None"]
          [] d = "example.org" ->
                 [tld_common |-> TRUE, known_legitimate |-> FALSE, brand |-> "None"]
          [] d = "evil-site.com" ->
                 [tld_common |-> TRUE, known_legitimate |-> FALSE, brand |-> "None"]
          [] d = "paypal.ca" ->
                 [tld_common |-> TRUE, known_legitimate |-> FALSE, brand |-> "None"]
          [] d = "paypal-alert.com" ->
                 [tld_common |-> TRUE, known_legitimate |-> FALSE, brand |-> "None"]]

Domains == DOMAIN DomainFacts

\* A url: text is the string, first200 and first250 its slices url[:200] and
\* url[:250] (the string itself when it is shorter), domain and suffix what
\* tldextract gives (suffix FALSE: no public suffix, as for an IP address), has
\* the string tests of the code that hold of it:
\*   is_suspicious_domain: "legitimate_subdomain", "keyword_dash", "lookalike",
\*                         "subdomain_keyword", "subdomain_brand"
\*   is_suspicious_url:    "ip_address", "obfuscated", "many_dots", "credentials",
\*                         "unusual_port", "redirect", "long", "netloc_shortener"
\*   analyze_url_path:     "suspicious_path", "suspicious_query"
\*   analyze_urls:         "trusted_shortener" (an entry of TRUSTED_URL_SHORTENERS is a
\*                         substring of the domain)
\*   url_verifier:         "official_domain" (the domain is in the 'domains' of a
\*                         service of OFFICIAL_DOMAIN_PATTERNS), "allowed_subdomain"
\*                         (the subdomain is in that service's 'subdomains'),
\*                         "official_path" (the path starts with an entry of the
\*                         'paths' of a service), "legitimate_shortener",
\*                         "similar_official", "suspicious_subdomain", "ip_anywhere",
\*                         "percent", "suspicious_tld"
\*   check_url_safety:     "encoded"
\* impersonates is the set of brands b for which the url's domain is none of b's
\* and holds b's name or resembles it (is_impersonating_brand)
Url(text, first200, first250, domain, subdomain, suffix, has, impersonates) ==
    [text |-> text, first200 |-> first200, first250 |-> first250, domain |-> domain,
     subdomain |-> subdomain, suffix |-> suffix, has |-> has,
     impersonates |-> impersonates]

\* http://paypal-secure.tk/login
U_fake ==
    Url("http://paypal-secure.tk/login", "http://paypal-secure.tk/login",
        "http://paypal-secure.tk/login", "paypal-secure.tk", "", TRUE,
        {"keyword_dash", "lookalike", "suspicious_path", "suspicious_tld"}, {"paypal"})

\* https://www.paypal.com/signin/
U_paypal ==
    Url("https://www.paypal.com/signin/", "https://www.paypal.com/signin/",
        "https://www.paypal.com/signin/", "paypal.com", "www", TRUE,
        {"legitimate_subdomain", "official_domain", "allowed_subdomain", "official_path",
         "suspicious_path"}, {})

\* https://bit.ly/3xYz
U_short ==
    Url("https://bit.ly/3xYz", "https://bit.ly/3xYz", "https://bit.ly/3xYz",
        "bit.ly", "", TRUE,
        {"trusted_shortener", "legitimate_shortener", "netloc_shortener"}, {})

\* http://example.org/news
U_plain ==
    Url("http://example.org/news", "http://example.org/news",
        "http://example.org/news", "example.org", "", TRUE, {}, {})

\* http://192.168.0.1/a
U_ip ==
    Url("http://192.168.0.1/a", "http://192.168.0.1/a", "http://192.168.0.1/a",
        ".", "", FALSE, {"ip_address", "ip_anywhere"}, {})

\* Two urls of evil-site.com longer than 250 characters that differ only after
\* the 250th: http://evil-site.com/track?id=aaa...aaa&u=bob@mail.example.org and
\* http://evil-site.com/track?id=aaa...aaa&u=bob
U_longA ==
    Url("http://evil-site.com/track?id=a..a&u=bob@mail.example.org",
        "http://evil-site.com/track?id=a..[:200]", "http://evil-site.com/track?id=a..[:250]",
        "evil-site.com", "", TRUE, {"long", "credentials"}, {})

U_longB ==
    Url("http://evil-site.com/track?id=a..a&u=bob",
        "http://evil-site.com/track?id=a..[:200]", "http://evil-site.com/track?id=a..[:250]",
        "evil-site.com", "", TRUE, {"long"}, {})

\* http://paypal-secure.tk/signin/
U_signin ==
    Url("http://paypal-secure.tk/signin/", "http://paypal-secure.tk/signin/",
        "http://paypal-secure.tk/signin/", "paypal-secure.tk", "", TRUE,
        {"keyword_dash", "lookalike", "suspicious_path", "suspicious_tld", "official_path"},
        {"paypal"})

\* https://paypal.ca/
U_ca ==
    Url("https://paypal.ca/", "https://paypal.ca/", "https://paypal.ca/", "paypal.ca", "",
        TRUE, {"official_domain"}, {"paypal"})

\* http://paypal-alert.com/verify ('t.co' is a substring of 'paypal-alert.com')
U_alert ==
    Url("http://paypal-alert.com/verify", "http://paypal-alert.com/verify",
        "http://paypal-alert.com/verify", "paypal-alert.com", "", TRUE,
        {"keyword_dash", "lookalike", "suspicious_path", "trusted_shortener"}, {"paypal"})

\* A parsed email, as analyze_urls reads it: its urls in order, and the brand of
\* the sender's domain (is_impersonating_brand; "None" when the sender is of no
\* brand of MAJOR_SERVICES or 'from' holds no address)
EmailData(urls_, sender_brand) == [urls |-> urls_, sender_brand |-> sender_brand]

Emails ==
    {EmailData(<<>>, "None"),
     EmailData(<<U_fake, U_paypal>>, "paypal"),
     EmailData(<<U_short, U_plain, U_ip>>, "None"),
     EmailData(<<U_longB>>, "None"),
     EmailData(<<U_longA, U_longB>>, "None"),
     EmailData(<<U_signin>>, "paypal"),
     EmailData(<<U_ca>>, "paypal"),
     EmailData(<<U_alert>>, "paypal")}

\* What dns.resolver.resolve gives for a domain, for 'A' and for 'MX':
\* "records", or the exception it raises
DnsAnswer(a, mx) == [A |-> a, MX |-> mx]

\* The resolvers: one answer per domain, the same at every query
Resolvers ==
    {r \in [Domains -> {DnsAnswer("records", "records"), DnsAnswer("records", "NoAnswer"),
                        DnsAnswer("NXDOMAIN", "NXDOMAIN"), DnsAnswer("Timeout", "Timeout")}] :
        /\ r["paypal.com"] = DnsAnswer("records", "records")
        /\ r["bit.ly"] = DnsAnswer("records", "NoAnswer")
        /\ r["paypal-secure.tk"].A # "records"
        /\ r["evil-site.com"].MX # "NoAnswer"
        /\ r["paypal.ca"] = DnsAnswer("records", "records")
        /\ r["paypal-alert.com"] = DnsAnswer("records", "NoAnswer")}

\* dict[key] = value
Put(cache, key, value) ==
    [k \in DOMAIN cache \cup {key} |-> IF k = key THEN value ELSE cache[k]]

\* "if key in CACHE: cache_time, result = CACHE[key]; if current_time - cache_time
\* < EXPIRY": the entry is there and fresh
Fresh(cache, key, current_time, expiry) ==
    key \in DOMAIN cache /\ current_time - cache[key].cache_time < expiry

\* The three caches, as one value threaded through the calls
Caches(dns, reputation, verification) ==
    [dns |-> dns, reputation |-> reputation, verification |-> verification]

\* A statement followed by the statements that use what it returned: Rest of the
\* value of first, which is computed once
Then(first, Rest(_)) == CHOOSE out \in {Rest(x) : x \in {first}} : TRUE

\* check_domain_dns: the caches after the call, and the result
check_domain_dns(c, current_time, answers, domain) ==
    IF Fresh(c.dns, domain, current_time, DNS_CACHE_EXPIRY)
    THEN [c |-> c, result |-> c.dns[domain].result]
    ELSE
    LET a == answers[domain].A
        mx == answers[domain].MX
        \* an exception other than NXDOMAIN, NoAnswer, Timeout ends both queries
        handled == {"records", "NXDOMAIN", "NoAnswer", "Timeout"}
        got_a == a = "records"
        got_mx == a \in handled /\ mx = "records"
        res == [exists |-> got_a \/ got_mx, A |-> got_a, MX |-> got_mx]
    IN  [c |-> [c EXCEPT !.dns = Put(@, domain, [cache_time |-> current_time,
                                                  result |-> res])],
         result |-> res]

\* check_domain_reputation: the caches after the call, and the result
check_domain_reputation(c, current_time, answers, domain) ==
    IF Fresh(c.reputation, domain, current_time, URL_REPUTATION_EXPIRY)
    THEN [c |-> c, result |-> c.reputation[domain].result]
    ELSE IF DomainFacts[domain].known_legitimate
    THEN LET res == [score |-> 90, trusted |-> TRUE]
         IN  [c |-> [c EXCEPT !.reputation =
                         Put(@, domain, [cache_time |-> current_time, result |-> res])],
              result |-> res]
    ELSE
    Then(check_domain_dns(c, current_time, answers, domain), LAMBDA dns :
        LET score == 50
                     + (IF dns.result.exists THEN 15 ELSE 0)
                     + (IF dns.result.exists /\ dns.result.MX THEN 10 ELSE 0)
                     + (IF DomainFacts[domain].tld_common THEN 5 ELSE 0 - 10)
            res == [score |-> score, trusted |-> score >= 80]
        IN  [c |-> [dns.c EXCEPT !.reputation =
                        Put(@, domain, [cache_time |-> current_time, result |-> res])],
             result |-> res])

\* check_url_safety: the caches after the call, and the result
check_url_safety(c, current_time, answers, url) ==
    LET cache_key == url.first250
    IN  IF Fresh(c.reputation, cache_key, current_time, URL_REPUTATION_EXPIRY)
        THEN [c |-> c, result |-> c.reputation[cache_key].result]
        ELSE
        Then(check_domain_reputation(c, current_time, answers, url.domain),
             LAMBDA domain_rep :
        LET score == domain_rep.result.score
                     - (IF "ip_address" \in url.has THEN 30 ELSE 0)
                     - (IF "encoded" \in url.has THEN 15 ELSE 0)
                     - (IF "credentials" \in url.has THEN 25 ELSE 0)
                     - (IF "long" \in url.has THEN 10 ELSE 0)
                     - (IF "unusual_port" \in url.has THEN 15 ELSE 0)
                     - (IF "suspicious_path" \in url.has THEN 5 ELSE 0)
                     - (IF "suspicious_query" \in url.has THEN 5 ELSE 0)
            res == [score |-> Max(0, Min(score, 100)), suspicious |-> score < 20]
        IN  [c |-> [domain_rep.c EXCEPT !.reputation =
                        Put(@, cache_key, [cache_time |-> current_time, result |-> res])],
             result |-> res])

\* _check_service_legitimacy(domain, subdomain, path, patterns), for some service
\* of OFFICIAL_DOMAIN_PATTERNS
check_service_legitimacy(url) ==
    \/ "official_domain" \in url.has
            /\ (url.subdomain = "" \/ "allowed_subdomain" \in url.has)
    \/ "official_path" \in url.has

\* verify_url_legitimacy: the caches after the call, and the result
verify_url_legitimacy(c, current_time, url) ==
    LET cache_key == url.first200
    IN  IF Fresh(c.verification, cache_key, current_time, CACHE_EXPIRY)
        THEN [c |-> c, result |-> c.verification[cache_key].result]
        ELSE
        LET official == check_service_legitimacy(url)
            shortener == ~official /\ "legitimate_shortener" \in url.has
            is_legitimate == official \/ shortener
            warnings ==
                (IF shortener THEN <<"URL shortener hides final destination">> ELSE <<>>)
                \o (IF "similar_official" \in url.has
                    THEN <<"Domain similar to official domain">> ELSE <<>>)
                \o (IF "suspicious_subdomain" \in url.has /\ ~is_legitimate
                    THEN <<"Suspicious subdomain">> ELSE <<>>)
                \o (IF "ip_anywhere" \in url.has
                    THEN <<"URL contains IP address instead of domain name">> ELSE <<>>)
                \o (IF "percent" \in url.has
                    THEN <<"URL contains encoded characters">> ELSE <<>>)
                \o (IF "suspicious_tld" \in url.has
                    THEN <<"Suspicious top-level domain">> ELSE <<>>)
            res == [is_legitimate |-> is_legitimate,
                    confidence |-> IF official THEN Frac(95)
                                   ELSE IF shortener THEN Frac(80) ELSE 0,
                    warnings |-> warnings]
        IN  [c |-> [c EXCEPT !.verification =
                        Put(@, cache_key, [cache_time |-> current_time, result |-> res])],
             result |-> res]

\* is_known_legitimate_domain, of the domain of a url
is_known_legitimate_domain(url) ==
    url.suffix /\ DomainFacts[url.domain].known_legitimate

\* is_suspicious_domain(domain, subdomain)
is_suspicious_domain(url) ==
    IF ~DomainFacts[url.domain].tld_common THEN TRUE
    ELSE IF is_known_legitimate_domain(url)
            /\ (url.subdomain = "" \/ "legitimate_subdomain" \in url.has) THEN FALSE
    ELSE IF "keyword_dash" \in url.has THEN TRUE
    ELSE IF "lookalike" \in url.has THEN TRUE
    ELSE url.subdomain # "" /\ url.has \cap {"subdomain_keyword", "subdomain_brand"} # {}

\* is_suspicious_url: the first test that holds gives the reason, "" if none
is_suspicious_url(url) ==
    IF "ip_address" \in url.has THEN "URL contains IP address instead of domain name"
    ELSE IF "obfuscated" \in url.has THEN "URL contains obfuscated protocol"
    ELSE IF "many_dots" \in url.has THEN "URL contains an unusual number of subdomains"
    ELSE IF "credentials" \in url.has THEN "URL contains embedded credentials"
    ELSE IF "unusual_port" \in url.has THEN "URL uses unusual port number"
    ELSE IF "redirect" \in url.has THEN "URL appears to contain a redirect"
    ELSE IF "long" \in url.has THEN "Suspiciously long URL"
    ELSE IF "netloc_shortener" \in url.has
         THEN "URL uses a shortening service which hides the destination"
    ELSE ""

\* analyze_url_path
analyze_url_path(url) == url.has \cap {"suspicious_path", "suspicious_query"} # {}

\* An entry of suspicious_elements
Element(type, value, reason, severity) ==
    [type |-> type, value |-> value, reason |-> reason, severity |-> severity]

RECURSIVE DnsLookups(_, _, _, _, _, _, _)
\* analyze_urls, lines 95-120: every domain with a suffix is queued once, a worker
\* stores check_domain_dns(domain) under it, and the join waits for all of them.
\* The lookups of different domains touch different keys: their order is the
\* queue's.
DnsLookups(c, current_time, answers, urls, i, analyzed_domains, results) ==
    IF i > Len(urls) THEN [c |-> c, results |-> results]
    ELSE IF urls[i].suffix /\ urls[i].domain \notin analyzed_domains
    THEN Then(check_domain_dns(c, current_time, answers, urls[i].domain), LAMBDA r :
              DnsLookups(r.c, current_time, answers, urls, i + 1,
                         analyzed_domains \cup {urls[i].domain},
                         Put(results, urls[i].domain, r.result)))
    ELSE DnsLookups(c, current_time, answers, urls, i + 1, analyzed_domains, results)

RECURSIVE bulk_verify_urls(_, _, _, _, _)
\* bulk_verify_urls: results[url] = verify_url_legitimacy(url), url by url
bulk_verify_urls(c, current_time, urls, i, results) ==
    IF i > Len(urls) THEN [c |-> c, results |-> results]
    ELSE Then(verify_url_legitimacy(c, current_time, urls[i]), LAMBDA r :
              bulk_verify_urls(r.c, current_time, urls, i + 1,
                               Put(results, urls[i].text, r.result)))

\* One warning of the verification as an element
RECURSIVE Warnings(_, _, _, _, _)
Warnings(type, url, warnings, severity, i) ==
    IF i > Len(warnings) THEN <<>>
    ELSE <<Element(type, url.text, warnings[i], severity)>>
         \o Warnings(type, url, warnings, severity, i + 1)

\* analyze_urls, lines 127-213: the elements one url adds, with the caches after
AnalyzeUrl(c, current_time, answers, resolved, url_verification_results, url) ==
    IF ~url.suffix THEN [c |-> c, elements |-> <<>>]
    ELSE
    Then(check_domain_reputation(c, current_time, answers, url.domain), LAMBDA rep :
    Then(check_url_safety(rep.c, current_time, answers, url), LAMBDA safety :
    LET verification_result == url_verification_results[url.text]
        is_verified_legitimate == verification_result.is_legitimate
        domain_reputation == rep.result
        url_safety == safety.result
        domain_exists == url.domain \in DOMAIN resolved /\ resolved[url.domain].exists
        is_url_shortener == "trusted_shortener" \in url.has
        full_domain == IF url.subdomain # "" THEN url.subdomain \o "." \o url.domain
                       ELSE url.domain
        reason == is_suspicious_url(url)
    IN  IF is_verified_legitimate /\ verification_result.confidence >= Frac(90)
        THEN [c |-> safety.c,
              elements |-> Warnings("url_warning", url, verification_result.warnings, "low", 1)]
        ELSE
        [c |-> safety.c,
         elements |->
            (IF ~is_verified_legitimate /\ ~is_url_shortener /\ is_suspicious_domain(url)
             THEN <<Element("domain", full_domain, "suspicious domain",
                            IF domain_reputation.score < 50 THEN "medium" ELSE "low")>>
             ELSE <<>>)
            \o (IF reason # "" /\ ~is_verified_legitimate
                THEN <<Element("url", url.text, reason,
                               IF url_safety.score < 30 THEN "high" ELSE "medium")>>
                ELSE <<>>)
            \o (IF analyze_url_path(url) /\ ~domain_reputation.trusted
                   /\ ~is_verified_legitimate
                THEN <<Element("url_path", url.text, "suspicious path", "low")>>
                ELSE <<>>)
            \o (IF ~is_verified_legitimate
                THEN Warnings("verification_warning", url, verification_result.warnings,
                              "medium", 1)
                ELSE <<>>)
            \o (IF ~domain_exists /\ ~is_known_legitimate_domain(url) /\ ~is_url_shortener
                   /\ ~is_verified_legitimate
                THEN <<Element("nonexistent_domain", url.domain,
                               "Domain doesn't have proper DNS records", "high")>>
                ELSE <<>>)]))

RECURSIVE AnalyzeEach(_, _, _, _, _, _, _, _)
\* analyze_urls, the loop of lines 126-213
AnalyzeEach(c, current_time, answers, resolved, url_verification_results, urls, i, suspicious_elements) ==
    IF i > Len(urls) THEN [c |-> c, suspicious_elements |-> suspicious_elements]
    ELSE Then(AnalyzeUrl(c, current_time, answers, resolved,
                         url_verification_results, urls[i]), LAMBDA r :
              AnalyzeEach(r.c, current_time, answers, resolved,
                          url_verification_results, urls, i + 1,
                          suspicious_elements \o r.elements))

RECURSIVE Mismatches(_, _, _)
\* analyze_urls, lines 215-235: links that impersonate the sender's brand
Mismatches(urls, sender_brand, i) ==
    IF sender_brand = "None" \/ i > Len(urls) THEN <<>>
    ELSE (IF ~is_known_legitimate_domain(urls[i]) /\ "trusted_shortener" \notin urls[i].has
             /\ sender_brand \in urls[i].impersonates
          THEN <<Element("domain_mismatch", urls[i].domain, "Potential brand impersonation",
                         "high")>>
          ELSE <<>>)
         \o Mismatches(urls, sender_brand, i + 1)

\* analyze_urls(email_data): the caches after the call, the dns_results the join
\* left, and the list returned
analyze_urls(c, current_time, answers, email_data) ==
    Then(DnsLookups(c, current_time, answers, email_data.urls, 1, {}, <<>>), LAMBDA dns :
    Then(bulk_verify_urls(dns.c, current_time, email_data.urls, 1, <<>>), LAMBDA ver :
    Then(AnalyzeEach(ver.c, current_time, answers, dns.results, ver.results,
                     email_data.urls, 1, <<>>), LAMBDA each :
        [c |-> each.c,
         dns_results |-> dns.results,
         suspicious_elements |->
             each.suspicious_elements
             \o Mismatches(email_data.urls, email_data.sender_brand, 1)])))

\* Bound: the calls of analyze_urls in one behaviour
MaxCalls == 3

InitUrls ==
    /\ resolver \in Resolvers
    /\ UrlIdle
    /\ NormIdle /\ ScanIdle /\ DnsIdle /\ LegitIdle

\* analyze_urls(email_data) is called and returns
CallAnalyzeUrls ==
    /\ Len(calls) < MaxCalls
    /\ \E email_data \in Emails :
       \E r \in {analyze_urls(Caches(DNS_CACHE, URL_REPUTATION_CACHE, URL_VERIFICATION_CACHE),
                              now, resolver, email_data)} :
            /\ DNS_CACHE' = r.c.dns
            /\ URL_REPUTATION_CACHE' = r.c.reputation
            /\ URL_VERIFICATION_CACHE' = r.c.verification
            /\ calls' = Append(calls, [email_data |-> email_data, current_time |-> now,
                                       dns_results |-> r.dns_results,
                                       suspicious_elements |-> r.suspicious_elements])
    /\ UNCHANGED <<now, resolver, normVars, scanVars, dnsVars, legitVars>>

\* The moments at which an entry of a cache stops being fresh
ExpiryTimes ==
    {DNS_CACHE[k].cache_time + DNS_CACHE_EXPIRY : k \in DOMAIN DNS_CACHE}
    \cup {URL_REPUTATION_CACHE[k].cache_time + URL_REPUTATION_EXPIRY :
             k \in DOMAIN URL_REPUTATION_CACHE}
    \cup {URL_VERIFICATION_CACHE[k].cache_time + CACHE_EXPIRY :
             k \in DOMAIN URL_VERIFICATION_CACHE}

\* Time passes between two calls, up to a moment at which an entry expires
TimePasses ==
    /\ Len(calls) < MaxCalls
    /\ \E t \in ExpiryTimes :
        /\ t > now
        /\ now' = t
    /\ UNCHANGED <<DNS_CACHE, URL_REPUTATION_CACHE, URL_VERIFICATION_CACHE, calls,
                   resolver, normVars, scanVars, dnsVars, legitVars>>

NextUrls ==
    \/ CallAnalyzeUrls
    \/ TimePasses

SpecUrls == InitUrls /\ [][NextUrls]_vars

----------------------------------------------------------------------------
(* analyze_urls, lines 95-120: the DNS lookups on worker threads. The main thread
   starts the workers, queues the domains and the sentinels and waits in
   dns_queue.join(); each worker runs dns_worker. One action is one step of one
   thread between two points at which another thread can run. *)

\* A lookup that never completes
Hangs == DnsAnswer("hangs", "hangs")

\* The resolvers of the worker pool: one that answers every query, and that one
\* with the lookups of one domain never completing
DnsResolvers ==
    LET answering ==
            [d \in Domains |->
                CASE d \in {"paypal.com", "example.org", "paypal.ca"} ->
                         DnsAnswer("records", "records")
                  [] d = "paypal-alert.com" -> DnsAnswer("records", "NoAnswer")
                  [] d = "bit.ly" -> DnsAnswer("records", "NoAnswer")
                  [] d = "paypal-secure.tk" -> DnsAnswer("NXDOMAIN", "NXDOMAIN")
                  [] d = "evil-site.com" -> DnsAnswer("Timeout", "Timeout")]
    IN  {answering} \cup {[answering EXCEPT ![d] = Hangs] : d \in Domains}

\* range(min(5, max(1, len(urls)))): the worker threads
Workers == 1..Min(5, Max(1, Len(url_list)))

\* Queue.put(item)
QueuePut(q, item) ==
    [q EXCEPT !.queue = Append(@, item), !.unfinished_tasks = @ + 1]

\* Queue.task_done()
QueueTaskDone(q) == [q EXCEPT !.unfinished_tasks = @ - 1]

\* Faulty variant of QueueJoinReturns: waits for the queue to be empty
QueueJoinReturns_empty(q) == q.queue = <<>>

\* Queue.join() returns: every item put has been marked done
QueueJoinReturns(q) == q.unfinished_tasks = 0

InitDns ==
    /\ resolver \in DnsResolvers
    /\ url_list \in {e.urls : e \in Emails}
    /\ main = [pc |-> "start", i |-> 1, analyzed_domains |-> {}, joined |-> <<>>,
               suspicious_elements |-> <<>>]
    /\ worker = [w \in Workers |-> [pc |-> "unstarted", domain |-> "None", value |-> <<>>,
                                    sentinels |-> 0]]
    /\ dns_queue = [queue |-> <<>>, unfinished_tasks |-> 0]
    /\ dns_results = <<>>
    /\ UrlIdle
    /\ NormIdle /\ ScanIdle /\ LegitIdle

\* lines 100-103: worker.start(), one thread after the other
MainStartWorker ==
    /\ main.pc = "start"
    /\ worker' = [worker EXCEPT ![main.i].pc = "get"]
    /\ main' = IF main.i + 1 \in Workers THEN [main EXCEPT !.i = @ + 1]
               ELSE [main EXCEPT !.pc = "queue", !.i = 1]
    /\ UNCHANGED <<url_list, dns_queue, dns_results, resolver, normVars, scanVars,
                   urlVars, legitVars>>

\* lines 106-112: the domain of the next url is queued, once, if it has a suffix
MainQueueDomain ==
    /\ main.pc = "queue"
    /\ IF main.i > Len(url_list)
       THEN /\ main' = [main EXCEPT !.pc = "sentinels", !.i = 1]
            /\ UNCHANGED dns_queue
       ELSE LET url == url_list[main.i]
            IN  IF url.domain \notin main.analyzed_domains /\ url.suffix
                THEN /\ main' = [main EXCEPT !.i = @ + 1,
                                             !.analyzed_domains = @ \cup {url.domain}]
                     /\ dns_queue' = QueuePut(dns_queue, url.domain)
                ELSE /\ main' = [main EXCEPT !.i = @ + 1]
                     /\ UNCHANGED dns_queue
    /\ UNCHANGED <<url_list, worker, dns_results, resolver, normVars, scanVars,
                   urlVars, legitVars>>

\* lines 115-116: one sentinel per worker
MainQueueSentinel ==
    /\ main.pc = "sentinels"
    /\ dns_queue' = QueuePut(dns_queue, "None")
    /\ main' = IF main.i + 1 \in Workers THEN [main EXCEPT !.i = @ + 1]
               ELSE [main EXCEPT !.pc = "join"]
    /\ UNCHANGED <<url_list, worker, dns_results, resolver, normVars, scanVars,
                   urlVars, legitVars>>

\* line 119: dns_queue.join() returns; joined is what dns_results holds then
MainJoin ==
    /\ main.pc = "join"
    /\ QueueJoinReturns(dns_queue)
    /\ main' = [main EXCEPT !.pc = "analyze", !.joined = dns_results]
    /\ UNCHANGED <<url_list, worker, dns_queue, dns_results, resolver, normVars,
                   scanVars, urlVars, legitVars>>

\* lines 120-237: the verification, the per-url analysis that reads dns_results,
\* the mismatch check and the return
MainAnalyze ==
    /\ main.pc = "analyze"
    /\ \E ver \in {bulk_verify_urls(Caches(DNS_CACHE, URL_REPUTATION_CACHE,
                                           URL_VERIFICATION_CACHE), now, url_list, 1, <<>>)} :
       \E each \in {AnalyzeEach(ver.c, now, resolver, dns_results, ver.results,
                                url_list, 1, <<>>)} :
            /\ DNS_CACHE' = each.c.dns
            /\ URL_REPUTATION_CACHE' = each.c.reputation
            /\ URL_VERIFICATION_CACHE' = each.c.verification
            /\ main' = [main EXCEPT !.pc = "returned",
                                    !.suspicious_elements = each.suspicious_elements]
    /\ UNCHANGED <<url_list, worker, dns_queue, dns_results, resolver, now, calls,
                   normVars, scanVars, legitVars>>

\* dns_worker, line 256: queue.get() takes the head of the queue when there is one
WorkerGet(w) ==
    /\ worker[w].pc = "get"
    /\ dns_queue.queue # <<>>
    /\ dns_queue' = [dns_queue EXCEPT !.queue = Tail(@)]
    /\ worker' = IF Head(dns_queue.queue) = "None"
                 THEN [worker EXCEPT ![w].pc = "sentinel", ![w].sentinels = @ + 1]
                 ELSE [worker EXCEPT ![w].pc = "lookup",
                                     ![w].domain = Head(dns_queue.queue)]
    /\ UNCHANGED <<url_list, main, dns_results, resolver, normVars, scanVars,
                   urlVars, legitVars>>

\* dns_worker, line 262, right-hand side: check_domain_dns(domain) returns, if the
\* resolver ever answers
WorkerLookup(w) ==
    /\ worker[w].pc = "lookup"
    /\ resolver[worker[w].domain] # Hangs
    /\ \E r \in {check_domain_dns(Caches(DNS_CACHE, URL_REPUTATION_CACHE,
                                         URL_VERIFICATION_CACHE),
                                  now, resolver, worker[w].domain)} :
            /\ DNS_CACHE' = r.c.dns
            /\ worker' = [worker EXCEPT ![w].pc = "store", ![w].value = r.result]
    /\ UNCHANGED <<url_list, main, dns_queue, dns_results, resolver, now,
                   URL_REPUTATION_CACHE, URL_VERIFICATION_CACHE, calls,
                   normVars, scanVars, legitVars>>

\* dns_worker, line 262, the assignment: results[domain] = ...
WorkerStore(w) ==
    /\ worker[w].pc = "store"
    /\ dns_results' = Put(dns_results, worker[w].domain, worker[w].value)
    /\ worker' = [worker EXCEPT ![w].pc = "task_done"]
    /\ UNCHANGED <<url_list, main, dns_queue, resolver, normVars, scanVars,
                   urlVars, legitVars>>

\* dns_worker, line 267: queue.task_done(), and back to the head of the loop
WorkerTaskDone(w) ==
    /\ worker[w].pc = "task_done"
    /\ dns_queue' = QueueTaskDone(dns_queue)
    /\ worker' = [worker EXCEPT ![w].pc = "get"]
    /\ UNCHANGED <<url_list, main, dns_results, resolver, normVars, scanVars,
                   urlVars, legitVars>>

\* dns_worker, line 258: queue.task_done() for the sentinel
WorkerSentinelDone(w) ==
    /\ worker[w].pc = "sentinel"
    /\ dns_queue' = QueueTaskDone(dns_queue)
    /\ worker' = [worker EXCEPT ![w].pc = "break"]
    /\ UNCHANGED <<url_list, main, dns_results, resolver, normVars, scanVars,
                   urlVars, legitVars>>

\* dns_worker, line 259: break, the function returns and the thread ends
WorkerExit(w) ==
    /\ worker[w].pc = "break"
    /\ worker' = [worker EXCEPT ![w].pc = "exited"]
    /\ UNCHANGED <<url_list, main, dns_queue, dns_results, resolver, normVars,
                   scanVars, urlVars, legitVars>>

MainStep ==
    \/ MainStartWorker
    \/ MainQueueDomain
    \/ MainQueueSentinel
    \/ MainJoin
    \/ MainAnalyze

WorkerStep(w) ==
    \/ WorkerGet(w)
    \/ WorkerLookup(w)
    \/ WorkerStore(w)
    \/ WorkerTaskDone(w)
    \/ WorkerSentinelDone(w)
    \/ WorkerExit(w)

NextDns ==
    \/ MainStartWorker
    \/ MainQueueDomain
    \/ MainQueueSentinel
    \/ MainJoin
    \/ MainAnalyze
    \/ \E w \in Workers : WorkerGet(w)
    \/ \E w \in Workers : WorkerLookup(w)
    \/ \E w \in Workers : WorkerStore(w)
    \/ \E w \in Workers : WorkerTaskDone(w)
    \/ \E w \in Workers : WorkerSentinelDone(w)
    \/ \E w \in Workers : WorkerExit(w)

SpecDns == InitDns /\ [][NextDns]_vars

\* Every thread that can take a step is scheduled in the end
SpecDnsFair ==
    /\ InitDns /\ [][NextDns]_vars
    /\ WF_vars(MainStep)
    /\ \A w \in 1..5 : WF_vars(w \in Workers /\ WorkerStep(w))

----------------------------------------------------------------------------
(* email_verification: verify_email_legitimacy *)

\* What verify_email_legitimacy reads of a parsed email:
\*   google: "domain" (sender_details.domain holds 'gmail.com' or 'google.com'),
\*           "pattern" (detect_google_email_patterns holds), "no"
\*   provider: what is_trusted_provider(sender) names, "None" if untrusted
\*   legitimate_urls, suspicious_urls: the counts of analyze_urls_in_email
\*   has_authentication: the Authentication-Results header is not empty;
\*   spf, dkim, dmarc: it holds 'spf=pass', 'dkim=pass', 'dmarc=pass'
LegitInputs ==
    {e \in [google : {"domain", "pattern", "no"},
            provider : {"None", "google", "netflix"},
            legitimate_urls : 0..1, suspicious_urls : 0..1,
            has_authentication : BOOLEAN,
            spf : BOOLEAN, dkim : BOOLEAN, dmarc : BOOLEAN] :
        (e.spf \/ e.dkim \/ e.dmarc) => e.has_authentication}

\* verify_email_authentication
verify_email_authentication(email_data) ==
    [spf_passed |-> email_data.has_authentication /\ email_data.spf,
     dkim_passed |-> email_data.has_authentication /\ email_data.dkim,
     dmarc_passed |-> email_data.has_authentication /\ email_data.dmarc,
     has_authentication |-> email_data.has_authentication]

\* Faulty variant of AuthenticationFallback: one passed check is enough
AuthenticationFallback_one(results, auth_results) ==
    LET auth_score == (IF auth_results.spf_passed THEN 1 ELSE 0)
                      + (IF auth_results.dkim_passed THEN 1 ELSE 0)
                      + (IF auth_results.dmarc_passed THEN 1 ELSE 0)
    IN  IF auth_results.has_authentication /\ auth_score >= 1
        THEN [results EXCEPT !.authentication_passed = TRUE,
                             !.confidence = Max(@, Frac(80)),
                             !.is_legitimate = TRUE]
        ELSE results

\* verify_email_legitimacy, lines 405-422: the authentication fallback
AuthenticationFallback(results, auth_results) ==
    LET auth_score == (IF auth_results.spf_passed THEN 1 ELSE 0)
                      + (IF auth_results.dkim_passed THEN 1 ELSE 0)
                      + (IF auth_results.dmarc_passed THEN 1 ELSE 0)
    IN  IF auth_results.has_authentication /\ auth_score >= 2
        THEN [results EXCEPT !.authentication_passed = TRUE,
                             !.confidence = Max(@, Frac(80)),
                             !.is_legitimate = TRUE]
        ELSE results

\* Faulty variant of UrlBoost: the sender need not be of a trusted provider
UrlBoost_anySender(results, is_trusted, email_data) ==
    IF email_data.legitimate_urls > 0 /\ email_data.suspicious_urls = 0
    THEN [results EXCEPT !.confidence = Frac(98)]
    ELSE results

\* verify_email_legitimacy, lines 388-395: all urls are of trusted domains
UrlBoost(results, is_trusted, email_data) ==
    IF email_data.legitimate_urls > 0 /\ email_data.suspicious_urls = 0 /\ is_trusted
    THEN [results EXCEPT !.confidence = Frac(98)]
    ELSE results

\* verify_email_legitimacy
verify_email_legitimacy(email_data) ==
    LET results == [is_legitimate |-> FALSE, confidence |-> 0,
                    trusted_provider |-> "None", authentication_passed |-> FALSE]
        is_trusted == email_data.provider # "None"
        provider_checked ==
            IF is_trusted
            THEN [results EXCEPT !.trusted_provider = email_data.provider,
                                 !.is_legitimate = TRUE, !.confidence = Frac(90)]
            ELSE results
        urls_checked == UrlBoost(provider_checked, is_trusted, email_data)
    IN  IF email_data.google \in {"domain", "pattern"}
        THEN [results EXCEPT !.is_legitimate = TRUE, !.confidence = Frac(95),
                             !.trusted_provider = "google"]
        ELSE IF urls_checked.is_legitimate /\ urls_checked.confidence > Frac(90)
        THEN urls_checked
        ELSE AuthenticationFallback(urls_checked, verify_email_authentication(email_data))

InitLegit ==
    /\ vl_pc = "call"
    /\ vl_in \in LegitInputs
    /\ vl_out = <<>>
    /\ resolver = <<>>
    /\ NormIdle /\ ScanIdle /\ UrlIdle /\ DnsIdle

\* verify_email_legitimacy(email_data) is called and returns
VerifyEmailLegitimacy ==
    /\ vl_pc = "call"
    /\ vl_out' = verify_email_legitimacy(vl_in)
    /\ vl_pc' = "done"
    /\ UNCHANGED <<vl_in, normVars, scanVars, resolver, urlVars, dnsVars>>

NextLegit == VerifyEmailLegitimacy

SpecLegit == InitLegit /\ [][NextLegit]_vars

----------------------------------------------------------------------------
(* Properties *)

Verdicts == {"safe", "suspicious", "phishing"}

\* The handler h returned, having gone past the whitelist check
Fused(h) == pc = "done" /\ entry = h /\ sig.path = "fusion"

\* ... and having decided a verdict
Decided(h) == Fused(h) /\ sig.fault # "analyze_urls"

\* The legitimacy override of the claims: isLegitimate with confidence > 0.7
OverrideApplied ==
    loc.legitimacy.is_legitimate /\ loc.legitimacy.confidence > Frac(70)

\* C1: every result either entry point returns, on the whitelist path, the fusion
\* path and the error path, carries a confidence and it lies in [0,100].
C1_ResultCarriesConfidence ==
    pc = "done" =>
        /\ "confidence" \in result.keys
        /\ result.confidence >= 0
        /\ result.confidence <= Whole(100)

\* The reference function of C2, from its cases
C2_Reference(x) ==
    LET parsed == x.t = "str" /\ x.text = "num"
        number == x.t \in {"int", "float", "bool"} \/ parsed
    IN  IF ~number THEN Whole(50)
        ELSE IF x.v > Whole(100) THEN Whole(100)
        ELSE IF x.v > Whole(1) THEN Round2(x.v)
        ELSE IF x.v < 0 THEN 0
        ELSE Round2(x.v * 100)

\* C2: normalize_confidence equals the reference function (a numeric string is
\* parsed; above 100 gives 100.0; in (1,100] the value itself; up to 1 the value
\* clamped to [0,1] times 100; two decimals; anything that is no finite number
\* gives 50.0), so its result lies in [0,100], and the listed examples hold.
C2_NormalizeEqualsReference ==
    nc_pc = "returned" =>
        /\ nc_out = C2_Reference(nc_in)
        /\ nc_out >= 0 /\ nc_out <= Whole(100)
        /\ nc_in = PyFloat(43800) => nc_out = 4380000
        /\ nc_in = PyFloat(Whole(1)) => nc_out = Whole(100)
        /\ nc_in = PyFloat(438000) => nc_out = 438000
        /\ nc_in = PyFloat(-50000) => nc_out = 0
        /\ nc_in = PyInt(6487) => nc_out = Whole(100)
        /\ nc_in = PyStr("bad", 0) => nc_out = Whole(50)
        /\ nc_in = PyVal("NoneType", "-", 0) => nc_out = Whole(50)

\* C2's case: a probability given as a numeric string came back as a percentage
C2_Witness ==
    /\ nc_pc = "returned"
    /\ nc_in.t = "str" /\ nc_in.text = "num"
    /\ nc_in.v > 0 /\ nc_in.v < Whole(1)
    /\ nc_out = Round2(nc_in.v * 100)
    /\ nc_out > Whole(1)

\* C3: a whitelisted email is returned as safe, at 98 percent, with no suspicious
\* elements, by either entry point.
C3_WhitelistedSafeAt98 ==
    (pc = "done" /\ sig.path = "whitelist" /\ sig.fault = "none") =>
        /\ result.verdict = "safe"
        /\ result.confidence = Whole(98)
        /\ result.suspiciousElements = 0

\* C4: in scan_email, when the legitimacy override applied, the verdict is safe
\* with no high-severity element and at most 3 elements, suspicious otherwise.
C4_OverrideVerdict ==
    (Decided("scan_email") /\ OverrideApplied) =>
        loc.verdict = IF loc.elements.high_severity_count = 0
                         /\ loc.elements.suspicious_count <= 3
                      THEN "safe" ELSE "suspicious"

\* The decision table of C5, first match
C5_Table(prediction, confidence, suspiciousCount, highSeverity) ==
    IF prediction = 0 /\ confidence > Frac(80) /\ suspiciousCount = 0 THEN "safe"
    ELSE IF prediction = 0 /\ confidence > Frac(60) /\ suspiciousCount < 2
            /\ highSeverity = 0 THEN "safe"
    ELSE IF prediction = 1 /\ confidence > Frac(60) THEN "phishing"
    ELSE "suspicious"

\* C5: in scan_email, when no legitimacy override applied, the verdict is the
\* first match of the table, read on the post-fusion confidence in [0,1].
C5_VerdictTable ==
    (Decided("scan_email") /\ ~OverrideApplied) =>
        /\ loc.confidence >= 0 /\ loc.confidence <= Whole(1)
        /\ loc.verdict = C5_Table(loc.prediction, loc.confidence,
                                  loc.elements.suspicious_count,
                                  loc.elements.high_severity_count)
        /\ sig.fault = "none" => result.verdict = loc.verdict

\* C5's case: phishing by the moderate rule, with a high-severity element
C5_Witness ==
    /\ Decided("scan_email") /\ ~OverrideApplied
    /\ loc.prediction = 1
    /\ loc.confidence = Frac(65)
    /\ loc.elements.high_severity_count > 0
    /\ loc.verdict = "phishing"

\* C6: a message shorter than 50 characters, classifier prediction 1, the LLM safe
\* at 0.8 or more, legitimacy unverified, no suspicious element: scan_email
\* returns safe.
C6_ShortMessageSafe ==
    (/\ Decided("scan_email")
     /\ sig.short
     /\ loc.classifier.prediction = 1
     /\ loc.gemini.enabled /\ loc.gemini.verdict = "safe"
     /\ loc.gemini.confidence >= Frac(80)
     /\ ~loc.legitimacy.is_legitimate
     /\ loc.elements.suspicious_count = 0) =>
        loc.verdict = "safe"

\* C7: a scan of scan_email_content in which a step raised returns the error
\* result and is not persisted as a successful scan: no record with a verdict of
\* Verdicts, no analytics increment.
C7_ErrorNotPersisted ==
    (pc = "done" /\ entry = "scan_email_content" /\ sig.fault # "none") =>
        /\ result.verdict = "error"
        /\ result.confidence = 0
        /\ result.suspiciousElements = 0
        /\ \A i \in 1 .. Len(scans) : scans[i].verdict \notin Verdicts
        /\ analytics = <<>>

\* C8: when the LLM call failed (not configured, timeout, quota, a response that
\* is not the JSON answer asked for), analyze_email_with_gemini returns
\* enabled=false, no reconciliation rule changed the classifier's answer, and
\* scan_email ends with a verdict of Verdicts.
C8_LlmFailureDisablesAssist ==
    (Fused("scan_email") /\ sig.call.outcome \in GeminiFailures \cup {"empty_text"}) =>
        /\ ~loc.gemini.enabled
        /\ loc.reconciled.prediction = loc.classifier.prediction
        /\ loc.reconciled.confidence = loc.classifier.confidence
        /\ sig.fault = "none" => result.verdict \in Verdicts

\* C9: a classifier that is not loaded or that raises gives prediction 0 at 0.5,
\* and the scan goes on to a verdict of Verdicts, decided on that default: with
\* no override of the LLM or of the legitimacy, prediction 0 at 1 - 0.5.
C9_ClassifierDefault ==
    (/\ pc = "done" /\ sig.path = "fusion"
     /\ sig.run.outcome \in {"unloaded", "raises"}) =>
        /\ loc.classifier.prediction = 0
        /\ loc.classifier.confidence = Frac(50)
        /\ sig.fault = "none" =>
               /\ result.verdict \in Verdicts
               /\ result.verdict = loc.verdict
               /\ "error" \notin result.keys
        /\ (/\ ~OverrideApplied
            /\ entry = "scan_email" => ~loc.gemini.enabled) =>
               /\ loc.prediction = 0
               /\ loc.confidence = Whole(1) - Frac(50)

\* C9's case: the model raised and the scan ended with a verdict
C9_Witness ==
    /\ Decided("scan_email")
    /\ sig.run.outcome = "raises"
    /\ sig.fault = "none"
    /\ ~OverrideApplied
    /\ result.verdict = "suspicious"

\* The prediction and the confidence the override of C10 is applied to
BeforeOverride ==
    IF entry = "scan_email"
    THEN [prediction |-> loc.reconciled.prediction, confidence |-> loc.reconciled.confidence]
    ELSE [prediction |-> loc.classifier.prediction, confidence |-> loc.classifier.confidence]

\* C10: a legitimacy result that is legitimate with confidence c in (0.7, 1.0]
\* forces prediction 0 and the confidence 0.85 + (c - 0.7) * 0.33, within
\* [0.85, 0.95], whatever the classifier and the LLM said; otherwise the override
\* does not apply: the prediction is kept and no legitimate service is recorded.
C10_OverrideBand ==
    (pc = "done" /\ sig.path = "fusion") =>
        IF loc.legitimacy.is_legitimate /\ loc.legitimacy.confidence > Frac(70)
        THEN /\ loc.legitimacy.confidence <= Whole(1)
             /\ loc.prediction = 0
             /\ loc.confidence
                    = Frac(85) + ((loc.legitimacy.confidence - Frac(70)) * 33) \div 100
             /\ loc.confidence >= Frac(85) /\ loc.confidence <= Frac(95)
             /\ loc.is_legitimate_service
        ELSE /\ loc.prediction = BeforeOverride.prediction
             /\ loc.confidence = IF BeforeOverride.prediction = 0
                                 THEN Whole(1) - BeforeOverride.confidence
                                 ELSE BeforeOverride.confidence
             /\ ~loc.is_legitimate_service

\* C10's case: the classifier said phishing at 0.9, the override applied at 0.98
C10_Witness ==
    /\ Fused("scan_email_content")
    /\ loc.classifier.prediction = 1 /\ loc.classifier.confidence = Frac(90)
    /\ loc.legitimacy.confidence = Frac(98)
    /\ loc.prediction = 0
    /\ loc.confidence = 94240

\* C11: two successive runs of analyze_urls on the same parsed email, the resolver
\* answering the same both times, return the same list of suspicious elements, in
\* the same order and with the same severities, whatever the caches hold.
C11_SameListOnRerun ==
    \A i \in 1..(Len(calls) - 1) :
        calls[i].email_data = calls[i + 1].email_data
            => calls[i].suspicious_elements = calls[i + 1].suspicious_elements

\* C14: a lookup that timed out brings no penalty: a 'nonexistent_domain' element
\* is in the list only for a domain whose absence the resolver confirmed, none of
\* its answers being a timeout.
C14_TimeoutNotPenalized ==
    \A i \in 1..Len(calls) :
        \A j \in 1..Len(calls[i].suspicious_elements) :
            LET e == calls[i].suspicious_elements[j]
            IN  e.type = "nonexistent_domain"
                    => /\ resolver[e.value].A # "Timeout"
                       /\ resolver[e.value].MX # "Timeout"

\* C12: the scan always returns in the end: analyze_urls, whose wait for the DNS
\* workers is a step of every scan, returns even if a lookup never completes.
C12_ScanReturns == <>(main.pc = "returned")

\* dns_queue.join() has returned
Joined == main.pc \in {"analyze", "returned"}

\* C13, as stated: once dns_queue.join() has returned, dns_results holds an entry
\* for every queued domain, every worker has consumed exactly one sentinel and
\* has exited, and dns_results is not written any more.
C13_WorkersExitedAtJoin ==
    Joined =>
        /\ \A d \in main.analyzed_domains : d \in DOMAIN main.joined
        /\ \A w \in Workers : worker[w].sentinels = 1 /\ worker[w].pc = "exited"
        /\ dns_results = main.joined

\* C13, amended: once dns_queue.join() has returned, dns_results holds an entry
\* for every queued domain, every worker has consumed exactly one sentinel and
\* has left its loop for good (it has exited or is about to), and dns_results is
\* not written any more: the per-url analysis reads complete results.
C13_JoinBarrier ==
    Joined =>
        /\ \A d \in main.analyzed_domains : d \in DOMAIN main.joined
        /\ \A w \in Workers :
              worker[w].sentinels = 1 /\ worker[w].pc \in {"break", "exited"}
        /\ dns_results = main.joined

\* The join has returned after three workers resolved two domains between them
C13_Witness ==
    /\ main.pc = "returned"
    /\ Cardinality(Workers) = 3
    /\ Cardinality(DOMAIN dns_results) = 2

\* C15: in both entry points the whitelist short-circuit is taken only for an email
\* that is whitelisted with a confidence strictly above 0.9; at exactly 0.9 or
\* below, the scan goes through the full pipeline.
C15_ShortCircuitAbove90 ==
    (pc = "done" /\ sig.path = "whitelist")
        => /\ sig.whitelist_check.is_whitelisted
           /\ sig.whitelist_check.confidence > Frac(90)

\* The LLM answered, and scan_email reconciled its verdict with the classifier's
Reconciled(verdict) ==
    Fused("scan_email") /\ loc.gemini.enabled /\ loc.gemini.verdict = verdict

\* The reconciliation left the classifier's prediction and confidence as they were
ReconcileUnchanged ==
    /\ loc.reconciled.prediction = loc.classifier.prediction
    /\ loc.reconciled.confidence = loc.classifier.confidence

\* C16: when the LLM says phishing with confidence >= 0.7 and the classifier said
\* safe, the prediction becomes phishing and the confidence max(classifier's,
\* LLM's); below 0.7, or when the classifier already said phishing, the rule
\* changes nothing.
C16_LlmPhishingOverride ==
    Reconciled("phishing") =>
        IF loc.classifier.prediction = 0 /\ loc.gemini.confidence >= Frac(70)
        THEN /\ loc.reconciled.prediction = 1
             /\ loc.reconciled.confidence
                    = Max(loc.classifier.confidence, loc.gemini.confidence)
        ELSE ReconcileUnchanged

\* The LLM says phishing at exactly 0.7 and the classifier said safe
C16_Witness ==
    /\ Reconciled("phishing")
    /\ loc.classifier.prediction = 0
    /\ loc.gemini.confidence = Frac(70)
    /\ loc.reconciled.prediction = 1

\* C17: when the LLM says safe and the classifier said phishing: with an LLM
\* confidence >= 0.6 the prediction becomes safe with the LLM's confidence;
\* otherwise, with a classifier confidence < 0.7 and an LLM confidence >= 0.5, it
\* becomes safe with confidence (llm + (1 - classifier)) / 2; otherwise nothing
\* changes.
C17_LlmSafeOverride ==
    (Reconciled("safe") /\ loc.classifier.prediction = 1) =>
        IF loc.gemini.confidence >= Frac(60)
        THEN /\ loc.reconciled.prediction = 0
             /\ loc.reconciled.confidence = loc.gemini.confidence
        ELSE IF loc.classifier.confidence < Frac(70) /\ loc.gemini.confidence >= Frac(50)
        THEN /\ loc.reconciled.prediction = 0
             /\ loc.reconciled.confidence
                    = (loc.gemini.confidence + (Whole(1) - loc.classifier.confidence)) \div 2
        ELSE ReconcileUnchanged

\* The soft override: the classifier said phishing below 0.7, the LLM safe at 0.5
C17_Witness ==
    /\ Reconciled("safe")
    /\ loc.classifier.prediction = 1
    /\ loc.classifier.confidence < Frac(70)
    /\ loc.gemini.confidence = Frac(50)
    /\ loc.reconciled.prediction = 0
    /\ loc.reconciled.confidence # loc.gemini.confidence

\* C18: in both entry points, when the prediction after the LLM reconciliation
\* and the legitimacy step is safe and no legitimacy override applied, the
\* confidence carried on is 1 - the classifier's phishing probability.
C18_SafeConfidenceInverted ==
    \A h \in {"scan_email", "scan_email_content"} :
        (Decided(h) /\ ~OverrideApplied /\ loc.prediction = 0)
            => loc.confidence = Whole(1) - loc.classifier.confidence

\* What the connected-account trust boost forces the legitimacy to
Boosted == [is_legitimate |-> TRUE, confidence |-> Frac(98), trusted_provider |-> "google"]

\* C19: the legitimacy the fusion reads is the boosted one only when the scan is of
\* a connected inbox and the sender's domain is the provider's (Google's); for any
\* other scan it is what verify_email_legitimacy returned.
C19_BoostOnlyForProviderSender ==
    /\ Fused("scan_email") => loc.legitimacy = sig.legitimacy_results
    /\ Fused("scan_email_content") =>
           \/ loc.legitimacy = sig.legitimacy_results
           \/ /\ loc.legitimacy = Boosted
              /\ sig.is_connected_account
              /\ sig.sender_is_google

\* verify_email_legitimacy returned, and not from a branch before the
\* authentication fallback: the sender is no Google sender, and is not a trusted
\* provider all of whose urls are legitimate
ReachedFallback ==
    /\ vl_pc = "done"
    /\ vl_in.google = "no"
    /\ ~(vl_in.provider # "None" /\ vl_in.legitimate_urls > 0 /\ vl_in.suspicious_urls = 0)

\* At least two of SPF, DKIM and DMARC pass
TwoChecksPass ==
    \/ vl_in.spf /\ vl_in.dkim
    \/ vl_in.spf /\ vl_in.dmarc
    \/ vl_in.dkim /\ vl_in.dmarc

\* C20: when verify_email_legitimacy reaches the authentication fallback, the
\* fallback fires if and only if at least two of SPF, DKIM and DMARC pass, and
\* then the result is legitimate with confidence max(current, 0.8), current being
\* 0.9 for a trusted provider and 0 otherwise; when no branch fires at all the
\* result is not legitimate, with confidence 0.
C20_AuthenticationFallback ==
    ReachedFallback =>
        LET current == IF vl_in.provider # "None" THEN Frac(90) ELSE 0
        IN  /\ vl_out.authentication_passed <=> TwoChecksPass
            /\ TwoChecksPass =>
                   vl_out.is_legitimate /\ vl_out.confidence = Max(current, Frac(80))
            /\ (~TwoChecksPass /\ vl_in.provider = "None") =>
                   ~vl_out.is_legitimate /\ vl_out.confidence = 0

\* An untrusted sender with exactly two passed checks is legitimate at 0.8
C20_Witness ==
    /\ ReachedFallback
    /\ vl_in.provider = "None"
    /\ vl_in.spf /\ vl_in.dmarc /\ ~vl_in.dkim
    /\ vl_out.is_legitimate
    /\ vl_out.confidence = Frac(80)

\* verify_email_legitimacy returned
Verified == vl_pc = "done"

\* The message has urls and analyze_urls_in_email found them all legitimate
AllUrlsLegitimate == vl_in.legitimate_urls > 0 /\ vl_in.suspicious_urls = 0

\* The result of the first branch: Google's, at 0.95, the other checks skipped
FirstBranchResult ==
    /\ vl_out.is_legitimate
    /\ vl_out.confidence = Frac(95)
    /\ vl_out.trusted_provider = "google"
    /\ ~vl_out.authentication_passed

\* C21, as stated: past the provider checks (the confidence is then 0.9 or 0.0,
\* so <= 0.9), a message all of whose urls are legitimate gets confidence 0.98;
\* a sender of the first branch gets 0.95 and the other checks are skipped.
C21_UrlBoostWheneverLegitimate ==
    Verified =>
        /\ (vl_in.google = "no" /\ AllUrlsLegitimate) => vl_out.confidence = Frac(98)
        /\ vl_in.google = "domain" => FirstBranchResult

\* C21, amended: past the provider checks, the confidence is 0.98 exactly when the
\* sender is of a trusted provider and the message has urls that are all
\* legitimate; a sender of the first branch gets 0.95 and the other checks are
\* skipped.
C21_UrlBoostForTrustedSender ==
    Verified =>
        /\ vl_in.google = "no" =>
               (vl_out.confidence = Frac(98)
                    <=> (vl_in.provider # "None" /\ AllUrlsLegitimate))
        /\ vl_in.google = "domain" => FirstBranchResult

\* A trusted provider's message with one url, a legitimate one, is at 0.98
C21_Witness ==
    /\ Verified
    /\ vl_in.google = "no"
    /\ vl_in.provider = "netflix"
    /\ vl_in.legitimate_urls = 1 /\ vl_in.suspicious_urls = 0
    /\ vl_out.confidence = Frac(98)

\* What verify_url_legitimacy computes for a url, no cache entry being served
FreshVerification(url) ==
    verify_url_legitimacy(Caches(<<>>, <<>>, <<>>), 0, url).result

\* The url is verified legitimate with confidence >= 0.9
VerifiedLegitimate(url) ==
    /\ FreshVerification(url).is_legitimate
    /\ FreshVerification(url).confidence >= Frac(90)

\* The element is about the url: its value is the url or the url's domain
RefersTo(e, url) == e.value = url.text \/ e.value = url.domain

\* C22: for a url verified legitimate with confidence >= 0.9, the list returned
\* by analyze_urls holds no element about that url other than the verification's
\* own warnings, each at low severity: no medium or high element refers to it.
C22_VerifiedUrlOnlyLowWarnings ==
    \A i \in 1..Len(calls) :
        \A k \in 1..Len(calls[i].email_data.urls) :
            LET url == calls[i].email_data.urls[k]
            IN  (url.suffix /\ VerifiedLegitimate(url)) =>
                    \A j \in 1..Len(calls[i].suspicious_elements) :
                        LET e == calls[i].suspicious_elements[j]
                        IN  RefersTo(e, url)
                                => e.type = "url_warning" /\ e.severity = "low"

\* C23: whenever the sender's domain is of a known brand and the email holds a url
\* whose domain is none of that brand's but holds or resembles the brand's name,
\* the list returned by analyze_urls has a 'domain_mismatch' element at high
\* severity for that url.
C23_MismatchForImpersonation ==
    \A i \in 1..Len(calls) :
        \A k \in 1..Len(calls[i].email_data.urls) :
            LET url == calls[i].email_data.urls[k]
            IN  (/\ calls[i].email_data.sender_brand # "None"
                 /\ calls[i].email_data.sender_brand \in url.impersonates) =>
                    \E j \in 1..Len(calls[i].suspicious_elements) :
                        LET e == calls[i].suspicious_elements[j]
                        IN  /\ e.type = "domain_mismatch"
                            /\ e.value = url.domain
                            /\ e.severity = "high"

\* C28: verify_url_legitimacy reports a url legitimate only if its domain is an
\* official domain of a service (at 0.95) or a listed shortener (at 0.8): the
\* entry it stored for a url of a call says legitimate for no other url, whatever
\* the path.
C28_LegitimateOnlyByDomain ==
    \A i \in 1..Len(calls) :
        \A k \in 1..Len(calls[i].email_data.urls) :
            LET url == calls[i].email_data.urls[k]
                stored == URL_VERIFICATION_CACHE[url.first200].result
            IN  stored.is_legitimate =>
                    \/ "official_domain" \in url.has /\ stored.confidence = Frac(95)
                    \/ "legitimate_shortener" \in url.has /\ stored.confidence = Frac(80)

\* What check_url_safety computes for a url, no cache entry being served
FreshUrlSafety(url) ==
    check_url_safety(Caches(<<>>, <<>>, <<>>), 0, resolver, url).result

\* What check_domain_reputation computes for a domain, no cache entry being served
FreshDomainReputation(domain) ==
    check_domain_reputation(Caches(<<>>, <<>>, <<>>), 0, resolver, domain).result

\* C29: the caches are transparent: what URL_VERIFICATION_CACHE and
\* URL_REPUTATION_CACHE hold for a url or a domain of a call, and serve within the
\* expiry window, is what a fresh computation for that same url or domain returns:
\* no entry computed for one url is served for another.
C29_CachesTransparent ==
    \A i \in 1..Len(calls) :
        \A k \in 1..Len(calls[i].email_data.urls) :
            LET url == calls[i].email_data.urls[k]
            IN  /\ URL_VERIFICATION_CACHE[url.first200].result = FreshVerification(url)
                /\ url.suffix =>
                    /\ URL_REPUTATION_CACHE[url.first250].result = FreshUrlSafety(url)
                    /\ URL_REPUTATION_CACHE[url.domain].result
                           = FreshDomainReputation(url.domain)

\* The findings analyze_urls returned to the fusion
UrlFindingCount ==
    sig.urls["url_high"] + sig.urls["domain_mismatch"] + sig.urls["url_medium"]

\* The keywords found, each once
KeywordsFound ==
    {loc.classifier.suspicious_keywords[i] :
        i \in 1..Len(loc.classifier.suspicious_keywords)}

\* C24: each keyword found in the text becomes at most one 'keyword' element of
\* the list: suspicious_count is the number of url findings plus the number of
\* distinct keywords found, no keyword counting twice.
C24_KeywordCountedOnce ==
    \A h \in {"scan_email", "scan_email_content"} :
        Decided(h) => loc.elements.suspicious_count
                        = UrlFindingCount + Cardinality(KeywordsFound)

\* A scan of an authenticated user that ended with no exception
StoredScan == pc = "done" /\ sig.current_user /\ sig.fault = "none"

\* C25: what is persisted for a scan is what is returned: for every scan of an
\* authenticated user exactly one scan record is created, and its verdict and
\* confidence are the verdict and confidence of the returned result.
C25_PersistedIsReturned ==
    StoredScan =>
        /\ Len(scans) = 1
        /\ scans[1].verdict = result.verdict
        /\ scans[1].confidence = result.confidence

\* What scan_email_content decides on the signals of the scan_email just run, the
\* account not being a connected one
SameSignalsScanEmailContent ==
    FuseScanEmailContent(sig.legitimacy_results, FALSE, FALSE, sig.run, sig.urls)

\* C26: the two entry points implement the same fusion: on the same classifier
\* result, legitimacy result and suspicious elements, the message not whitelisted,
\* the account not connected and the LLM disabled, scan_email and
\* scan_email_content give the same verdict and the same confidence percentage.
C26_SameFusion ==
    (Decided("scan_email") /\ ~loc.gemini.enabled) =>
        /\ loc.verdict = SameSignalsScanEmailContent.verdict
        /\ loc.confidence_percentage = SameSignalsScanEmailContent.confidence_percentage

\* What scan_email decides on the signals of the scan just run when the branch
\* for short messages is never taken
WithoutShortMessageOverride ==
    FuseScanEmail(sig.legitimacy_results, sig.run, sig.call, FALSE, sig.urls)

\* C27: in scan_email the short-message override is subsumed by the LLM safe
\* override: where its condition is read with the LLM saying safe at >= 0.8 the
\* prediction is already 0, so the branch changes nothing and every scan decides
\* what it would decide without the branch.
C27_ShortOverrideSubsumed ==
    Decided("scan_email") =>
        /\ loc = WithoutShortMessageOverride
        /\ (loc.gemini.enabled /\ loc.gemini.verdict = "safe"
                /\ loc.gemini.confidence >= Frac(80))
               => loc.reconciled.prediction = 0

\* A short message the classifier called phishing and the LLM safe at 0.8
C27_Witness ==
    /\ Decided("scan_email")
    /\ sig.short
    /\ loc.gemini.enabled /\ loc.gemini.verdict = "safe"
    /\ loc.gemini.confidence = Frac(80)
    /\ loc.classifier.prediction = 1 /\ loc.classifier.confidence >= Frac(70)
    /\ loc.reconciled.prediction = 0
    /\ loc.reconciled.confidence = Frac(80)

\* The LLM reconciliation changed the classifier's prediction
PredictionChanged == loc.reconciled.prediction # loc.classifier.prediction

\* C30: in scan_email with the LLM enabled, features['gemini']['override_applied']
\* is true exactly when the reconciliation changed the classifier's prediction,
\* and false when the classifier's prediction was kept.
C30_OverrideFlagExact ==
    (Decided("scan_email") /\ loc.gemini.enabled) =>
        (loc.reconciled.override_applied <=> PredictionChanged)

====
